---- MODULE Spec2Model ----
(***************************************************************************)
(* Forecast engine of wjkennedy/forecastapp: the Monte Carlo simulators    *)
(* (backend computeBaseline handler, computeScenario's                     *)
(* runMonteCarloSimulation, frontend runSimulation) and the useSimulation  *)
(* hook that drives runSimulation in batches on the event loop.            *)
(***************************************************************************)
EXTENDS Integers, Sequences, FiniteSets, TLC

(***************************************************************************)
(* 32-bit machine words.  TLC integers are 32-bit signed, so a JavaScript  *)
(* int32/uint32 value is kept as <<high half, low half>>, each 0..65535,   *)
(* and every operation is taken modulo 2^32 as the JavaScript bit          *)
(* operators (|0, >>>, ^, Math.imul) do.                                   *)
(***************************************************************************)
W16 == 65536

Pow2(k) == 2 ^ k

\* a ^ b on one bit, on 4 bits and on 16 bits
Xor1(a, b) == (a + b) % 2

Xor4(a, b) ==
    Xor1(a % 2, b % 2) + 2 * Xor1((a \div 2) % 2, (b \div 2) % 2)
        + 4 * Xor1((a \div 4) % 2, (b \div 4) % 2) + 8 * Xor1(a \div 8, b \div 8)

Xor16(a, b) ==
    Xor4(a % 16, b % 16) + 16 * Xor4((a \div 16) % 16, (b \div 16) % 16)
        + 256 * Xor4((a \div 256) % 16, (b \div 256) % 16)
        + 4096 * Xor4(a \div 4096, b \div 4096)

WXor(x, y) == <<Xor16(x[1], y[1]), Xor16(x[2], y[2])>>

WAdd(x, y) ==
    LET lo == x[2] + y[2]
        hi == x[1] + y[1] + (lo \div W16)
    IN  <<hi % W16, lo % W16>>

WNeg(x) ==
    IF x[2] = 0 THEN <<(W16 - x[1]) % W16, 0>>
    ELSE <<W16 - 1 - x[1], W16 - x[2]>>

WSub(x, y) == WAdd(x, WNeg(y))

\* x >>> k for 0 < k < 16
WShr(x, k) ==
    <<x[1] \div Pow2(k), (x[2] \div Pow2(k)) + (x[1] % Pow2(k)) * Pow2(16 - k)>>

\* x << k for 0 < k < 16
WShl(x, k) ==
    <<((x[1] % Pow2(16 - k)) * Pow2(k)) + (x[2] \div Pow2(16 - k)),
      (x[2] % Pow2(16 - k)) * Pow2(k)>>

\* the low 16 bits of a 16-bit by 16-bit product
MulLo16(x, y) ==
    ((x * (y % 256)) + ((x * (y \div 256)) % 256) * 256) % W16

\* Math.imul: the low 32 bits of the product
Imul(x, y) ==
    LET a0 == x[2] % 256
        a1 == x[2] \div 256
        b0 == y[2] % 256
        b1 == y[2] \div 256
        p0 == a0 * b0
        p1 == a1 * b0 + a0 * b1
        p2 == a1 * b1
        s  == p0 + (p1 % 256) * 256
        lo == s % W16
        c  == (s \div W16) + (p1 \div 256) + p2
        hi == (c + MulLo16(x[1], y[2]) + MulLo16(x[2], y[1])) % W16
    IN  <<hi, lo>>

\* 1 | x
Or1(x) == <<x[1], x[2] + (1 - (x[2] % 2))>>

\* 61 | x  (61 = 111101b: every low bit but bit 1 is forced)
Or61(x) == <<x[1], (x[2] \div 64) * 64 + 61 + 2 * ((x[2] \div 2) % 2)>>

WordOf(n) == <<n \div W16, n % W16>>

\* 0x6D2B79F5
Gamma == <<27947, 31221>>

(***************************************************************************)
(* createRng (mulberry32): the generator is its 32-bit state; one call     *)
(* advances the state and returns the uint32 numerator u of u/2^32.        *)
(***************************************************************************)
RngState(state) == WAdd(state, Gamma)

\* t ^ t >>> 14
Mix3(t) == WXor(t, WShr(t, 14))

\* t + Math.imul(t ^ t >>> 7, 61 | t) ^ t
Mix2(t) == WXor(WAdd(t, Imul(WXor(t, WShr(t, 7)), Or61(t))), t)

\* Math.imul(state ^ state >>> 15, 1 | state)
Mix1(s) == Imul(WXor(s, WShr(s, 15)), Or1(s))

RngOutput(state) == Mix3(Mix2(Mix1(RngState(state))))

\* Math.floor(rng() * n) for the numerator u and 0 < n < 2^15:
\* u/2^32 and its product with n are exact doubles, so this is (u*n) div 2^32
RandomIndex(u, n) == ((u[1] * n) + ((u[2] * n) \div W16)) \div W16

(***************************************************************************)
(* hashCode: a seed string is its sequence of UTF-16 code units.           *)
(***************************************************************************)
\* hash = ((hash << 5) - hash) + char; hash |= 0
HashStep(hash, char) == WAdd(WSub(WShl(hash, 5), hash), WordOf(char))

IsWord(x) == x[1] \in 0..(W16 - 1) /\ x[2] \in 0..(W16 - 1)

\* the for loop from index i on; hash is a word after every pass
RECURSIVE HashFrom(_, _, _)
HashFrom(hash, str, i) ==
    IF i <= Len(str) /\ IsWord(hash)
    THEN HashFrom(HashStep(hash, str[i]), str, i + 1)
    ELSE hash

WAbs(x) == IF x[1] >= 32768 THEN WNeg(x) ELSE x

hashCode(str) == WAbs(HashFrom(<<0, 0>>, str, 1))

createRng(seed) == seed

(***************************************************************************)
(* Bounds of the model.                                                    *)
(***************************************************************************)
\* longest throughput history (weeks) of a snapshot
MaxHist == 2
\* largest remaining workload (points or issues)
MaxWork == 3
\* the sample count the browser passes to runSimulation
MaxSamples == 3
\* the backend's fixed sample count (10000 in the code) scaled to the model
HandlerSamples == 3
\* largest clock reading (milliseconds)
MaxNow == 1
\* most items in a fetched set
MaxIssues == 3
\* instants told apart within a day
TicksPerDay == 4
\* most items in a set given to computeEstimationAccuracy
MaxCompleted == 4
\* most weeks in a series given to computeConfidence
MaxWeeks == 4

\* per-trial week cap
maxWeeks == 104
\* default batchSize of runSimulation
DefaultBatchSize == 500
\* weeks computeThroughput looks back
weeksAgo == 12

(***************************************************************************)
(* Inputs.  A weekly throughput record carries the points and the issues   *)
(* completed; a seed string is its sequence of code units, <<>> standing   *)
(* for a missing snapshotId.                                               *)
(***************************************************************************)
Weeks ==
    { [points_completed |-> 0, issues_completed |-> 1],
      [points_completed |-> 1, issues_completed |-> 1],
      [points_completed |-> 3, issues_completed |-> 2] }

SeqsUpTo(S, n) == UNION { [1..k -> S] : k \in 0..n }

Throughputs == SeqsUpTo(Weeks, MaxHist)

Absent == <<>>
\* 'default'
SeedDefault == <<100, 101, 102, 97, 117, 108, 116>>
\* 'forecast'
SeedForecast == <<102, 111, 114, 101, 99, 97, 115, 116>>
\* 'undefined'
StrUndefined == <<117, 110, 100, 101, 102, 105, 110, 101, 100>>
\* '_scenario'
ScenarioSuffix == <<95, 115, 99, 101, 110, 97, 114, 105, 111>>

Seeds == {Absent, SeedDefault}

\* the remaining-work summary of a payload; 2 issues or none
IssueCounts == {0, 2}
Remainings == [total_points : 0..MaxWork, issue_count : IssueCounts]

\* batch sizes passed to runSimulation
BatchSizes == {2, DefaultBatchSize}

Times == 0..MaxNow

(***************************************************************************)
(* seedrandom is a library outside the repository: a seeded generator      *)
(* whose stream is a function of the seed string alone.  Its stream is     *)
(* modelled by the repository's own seeded generator over the seed's hash. *)
(***************************************************************************)
seedrandom(seed) == createRng(hashCode(seed))

(***************************************************************************)
(* Helpers on sequences of trial results.                                  *)
(***************************************************************************)
RECURSIVE Insert(_, _)
Insert(sorted, v) ==
    IF sorted = <<>> THEN <<v>>
    ELSE IF v < Head(sorted) THEN <<v>> \o sorted
    ELSE <<Head(sorted)>> \o Insert(Tail(sorted), v)

\* variant: the sort left out
Unsorted(seq) == seq

\* Array.prototype.sort((a, b) => a - b)
RECURSIVE SortAsc(_)
SortAsc(seq) ==
    IF seq = <<>> THEN <<>> ELSE Insert(SortAsc(Tail(seq)), Head(seq))

RECURSIVE SumSeq(_)
SumSeq(seq) == IF seq = <<>> THEN 0 ELSE Head(seq) + SumSeq(Tail(seq))

MinOf(S) == CHOOSE v \in S : \A w \in S : v <= w
MaxOf(S) == CHOOSE v \in S : \A w \in S : v >= w

RECURSIVE AscSeq(_)
AscSeq(S) == IF S = {} THEN <<>> ELSE <<MinOf(S)>> \o AscSeq(S \ {MinOf(S)})

Range(seq) == { seq[i] : i \in DOMAIN seq }

CountOf(seq, v) == Cardinality({ i \in DOMAIN seq : seq[i] = v })

\* Math.floor(samples * q) for q = num/den in {0.50, 0.80, 0.95}
PercentileIndex(samples, num, den) == (samples * num) \div den

(***************************************************************************)
(* One trial: resample weekly throughput until the work is done or the     *)
(* week cap is reached.  t = [remaining, weeks, rng, draws]; draws counts  *)
(* the calls of rng().                                                     *)
(***************************************************************************)
\* variant of the loop condition: weeks <= maxWeeks
TrialContinuesPastCap(t) == t.remaining > 0 /\ t.weeks <= maxWeeks

\* the loop condition: while (remaining > 0 && weeks < maxWeeks)
TrialContinues(t) == t.remaining > 0 /\ t.weeks < maxWeeks

\* one pass through the loop body, or no change once the loop has ended
TrialStep(values, t) ==
    IF TrialContinues(t)
    THEN [remaining |-> t.remaining - values[RandomIndex(RngOutput(t.rng), Len(values)) + 1],
          weeks |-> t.weeks + 1, rng |-> RngState(t.rng), draws |-> t.draws + 1]
    ELSE t

\* eight passes; the recursion below then nests 13 deep for 104 weeks
TrialSteps(values, t) ==
    TrialStep(values, TrialStep(values, TrialStep(values, TrialStep(values,
    TrialStep(values, TrialStep(values, TrialStep(values, TrialStep(values, t))))))))

RECURSIVE TrialLoop(_, _)
TrialLoop(values, t) ==
    IF TrialContinues(t) THEN TrialLoop(values, TrialSteps(values, t)) ELSE t

\* variant: the week counter started at 1
PushTrialFromOne(s, t) ==
    [rng             |-> t.rng,
     completionWeeks |-> Append(s.completionWeeks, t.weeks + 1),
     draws           |-> t.draws]

PushTrial(s, t) ==
    [rng             |-> t.rng,
     completionWeeks |-> Append(s.completionWeeks, t.weeks),
     draws           |-> t.draws]

\* the for loop over trials, until upTo trials are recorded
RECURSIVE RunTrials(_, _, _, _)
RunTrials(values, work, s, upTo) ==
    IF Len(s.completionWeeks) >= upTo THEN s
    ELSE RunTrials(values, work,
                   PushTrial(s, TrialLoop(values, [remaining |-> work, weeks |-> 0,
                                                   rng |-> s.rng, draws |-> s.draws])),
                   upTo)

\* variant: histogram[weeks] = 1 in place of (histogram[weeks] || 0) + 1
HistogramOnce(completionWeeks, total) ==
    LET ws == AscSeq(Range(completionWeeks))
    IN  [i \in 1..Len(ws) |-> [weeks |-> ws[i], count |-> 1, probability |-> <<1, total>>]]

\* histogram buckets {weeks, count, probability = count / total} sorted by
\* weeks; the probability is kept as the fraction <<count, total>>
Histogram(completionWeeks, total) ==
    LET ws == AscSeq(Range(completionWeeks))
    IN  [i \in 1..Len(ws) |->
            [weeks       |-> ws[i],
             count       |-> CountOf(completionWeeks, ws[i]),
             probability |-> <<CountOf(completionWeeks, ws[i]), total>>]]

generateHistogram(completionWeeks) ==
    Histogram(completionWeeks, Len(completionWeeks))

\* weekData.issues_completed || ... || 0, weekData.points_completed || ... || 0
WeekThroughput(weekData, useIssueCount) ==
    IF useIssueCount THEN weekData.issues_completed ELSE weekData.points_completed

ThroughputValues(throughputData, useIssueCount) ==
    [i \in 1..Len(throughputData) |-> WeekThroughput(throughputData[i], useIssueCount)]

(***************************************************************************)
(* computeBaseline handler.  Returns the resolver's response together with *)
(* the number of trials started and of rng() calls made.  The trials of a  *)
(* call are a function of the payload alone; they are passed in as `run`   *)
(* (see BaselineTrials and trialCache).  burnDown and throughputStats,     *)
(* functions of the payload and of p50/p80 alone, are not carried.         *)
(***************************************************************************)
HandlerSeed(id) == IF id = Absent THEN SeedDefault ELSE id

Failure(message) ==
    [response |-> [success |-> FALSE, error |-> message], trials |-> 0, draws |-> 0]

WorkToComplete(remaining) ==
    IF remaining.total_points > 0 THEN remaining.total_points ELSE remaining.issue_count

UseIssueCount(remaining) == remaining.total_points = 0

\* lines 69-93: the seeded generator and the loop over the trials
BaselineTrials(throughputData, id, workToComplete, useIssueCount) ==
    RunTrials(ThroughputValues(throughputData, useIssueCount), workToComplete,
              [rng |-> seedrandom(HandlerSeed(id)), completionWeeks |-> <<>>, draws |-> 0],
              HandlerSamples)

\* lines 95-144, on the sorted completionWeeks
BaselineResponse(payload, samples, completionWeeks, startTime, now) ==
    [success         |-> TRUE,
     runId           |-> now,
     snapshotId      |-> payload.snapshotId,
     scenarioId      |-> "baseline",
     computedAt      |-> now,
     p50             |-> completionWeeks[PercentileIndex(samples, 1, 2) + 1],
     p80             |-> completionWeeks[PercentileIndex(samples, 4, 5) + 1],
     p95             |-> completionWeeks[PercentileIndex(samples, 19, 20) + 1],
     remainingWork   |-> WorkToComplete(payload.remaining),
     remainingIssues |-> payload.remaining.issue_count,
     useIssueCount   |-> UseIssueCount(payload.remaining),
     weeksAnalyzed   |-> Len(payload.throughput),
     distribution    |-> generateHistogram(completionWeeks),
     executionTime   |-> now - startTime]

\* variant: the no-remaining-work check placed before the validation
computeBaselineZeroFirst(payload, run, startTime, now) ==
    IF payload.remaining.total_points = 0 /\ payload.remaining.issue_count = 0
    THEN [response |-> [success |-> TRUE,
                        message |-> "No remaining work - project is complete!",
                        p50 |-> 0, p80 |-> 0, p95 |-> 0],
          trials |-> 0, draws |-> 0]
    ELSE IF Len(payload.throughput) = 0
    THEN Failure("No historical throughput data available")
    ELSE [response |-> BaselineResponse(payload, HandlerSamples,
                                        SortAsc(run.completionWeeks), startTime, now),
          trials   |-> Len(run.completionWeeks),
          draws    |-> run.draws]

computeBaselineHandler(payload, run, startTime, now) ==
    IF Len(payload.throughput) = 0
    THEN Failure("No historical throughput data available")
    ELSE IF payload.remaining.total_points = 0 /\ payload.remaining.issue_count = 0
    THEN [response |-> [success |-> TRUE,
                        message |-> "No remaining work - project is complete!",
                        p50 |-> 0, p80 |-> 0, p95 |-> 0],
          trials |-> 0, draws |-> 0]
    ELSE [response |-> BaselineResponse(payload, HandlerSamples,
                                        SortAsc(run.completionWeeks), startTime, now),
          trials   |-> Len(run.completionWeeks),
          draws    |-> run.draws]

(***************************************************************************)
(* computeScenario: runMonteCarloSimulation on the adjusted remaining work.*)
(* With an empty throughput array the first draw reads a property of       *)
(* undefined and throws; the handler's catch turns it into a failure.      *)
(***************************************************************************)
ScenarioSeed(id) == (IF id = Absent THEN StrUndefined ELSE id) \o ScenarioSuffix

ScenarioThrows(throughputData, remainingWork) ==
    Len(throughputData) = 0 /\ remainingWork > 0

ScenarioTrials(throughputData, id, remainingWork) ==
    RunTrials(ThroughputValues(throughputData, FALSE), remainingWork,
              [rng |-> seedrandom(ScenarioSeed(id)), completionWeeks |-> <<>>, draws |-> 0],
              HandlerSamples)

runMonteCarloSimulation(samples, completionWeeks) ==
    [p50          |-> completionWeeks[PercentileIndex(samples, 1, 2) + 1],
     p80          |-> completionWeeks[PercentileIndex(samples, 4, 5) + 1],
     p95          |-> completionWeeks[PercentileIndex(samples, 19, 20) + 1],
     distribution |-> generateHistogram(completionWeeks)]

ScenarioResponse(payload, forecast, startTime, now) ==
    [success           |-> TRUE,
     runId             |-> now,
     snapshotId        |-> payload.snapshotId,
     computedAt        |-> now,
     p50               |-> forecast.p50,
     p80               |-> forecast.p80,
     p95               |-> forecast.p95,
     adjustedRemaining |-> payload.remaining,
     distribution      |-> forecast.distribution,
     executionTime     |-> now - startTime]

computeScenarioHandler(payload, run, startTime, now) ==
    IF ScenarioThrows(payload.throughput, payload.remaining)
    THEN [response |-> [success |-> FALSE, error |-> "Cannot read properties of undefined"],
          trials |-> 1, draws |-> 1]
    ELSE [response |-> ScenarioResponse(payload,
                           runMonteCarloSimulation(HandlerSamples, SortAsc(run.completionWeeks)),
                           startTime, now),
          trials   |-> Len(run.completionWeeks),
          draws    |-> run.draws]

(***************************************************************************)
(* runSimulation (frontend).  A run is the closure state of one call: the  *)
(* generator, completionWeeks, currentSample.  s = [rng, completionWeeks,  *)
(* draws] as in RunTrials; currentSample is Len(s.completionWeeks).        *)
(***************************************************************************)
SimSeed(seed) == IF seed = Absent THEN SeedForecast ELSE seed

Positive(v) == v > 0

\* throughputData.map(...).filter(v => v > 0)
SimValues(throughputData, useIssueCount) ==
    SelectSeq(ThroughputValues(throughputData, useIssueCount), Positive)

Min2(a, b) == IF a < b THEN a ELSE b

\* Math.round(num / den) for num >= 0, den > 0
Round(num, den) == (2 * num + den) \div (2 * den)

\* variant: the generator created inside runBatch
runBatchReseeded(values, args, s) ==
    RunTrials(values, args.remainingWork,
              [s EXCEPT !.rng = createRng(hashCode(SimSeed(args.seed)))],
              Min2(Len(s.completionWeeks) + args.batchSize, args.samples))

\* one call of runBatch: the trials from currentSample to batchEnd
runBatch(values, args, s) ==
    RunTrials(values, args.remainingWork, s,
              Min2(Len(s.completionWeeks) + args.batchSize, args.samples))

\* the object passed to onProgress after a batch
ProgressReport(currentSample, samples, elapsed) ==
    [current   |-> currentSample,
     total     |-> samples,
     percent   |-> Round(currentSample * 100, samples),
     elapsed   |-> elapsed,
     remaining |-> Round(elapsed * (samples - currentSample), currentSample)]

\* the value the promise resolves with, on the sorted completionWeeks;
\* mean is kept in tenths, throughputStats.mean as the fraction <<sum, n>>
SimResult(values, samples, completionWeeks, totalTime) ==
    [success         |-> TRUE,
     p50             |-> completionWeeks[PercentileIndex(samples, 1, 2) + 1],
     p80             |-> completionWeeks[PercentileIndex(samples, 4, 5) + 1],
     p95             |-> completionWeeks[PercentileIndex(samples, 19, 20) + 1],
     mean            |-> Round(SumSeq(completionWeeks) * 10, samples),
     min             |-> completionWeeks[1],
     max             |-> completionWeeks[samples],
     distribution    |-> Histogram(completionWeeks, samples),
     simulationCount |-> samples,
     executionTime   |-> totalTime,
     throughputStats |-> [mean  |-> <<SumSeq(values), Len(values)>>,
                          min   |-> MinOf(Range(values)),
                          max   |-> MaxOf(Range(values)),
                          weeks |-> Len(values)]]

SimFailure == [success |-> FALSE, error |-> "No throughput data available"]

\* a result without its clock-derived field
Core(result) == [f \in DOMAIN result \ {"executionTime"} |-> result[f]]

\* a whole run with no other code in between: batches until all samples ran
RECURSIVE RunToEnd(_, _, _)
RunToEnd(values, args, s) ==
    IF Len(s.completionWeeks) >= args.samples THEN s
    ELSE RunToEnd(values, args, runBatch(values, args, s))

RunAlone(values, args) ==
    IF Len(values) = 0 THEN SimFailure
    ELSE Core(SimResult(values, args.samples,
                        SortAsc(RunToEnd(values, args,
                                         [rng |-> createRng(hashCode(SimSeed(args.seed))),
                                          completionWeeks |-> <<>>,
                                          draws |-> 0]).completionWeeks),
                        0))

(***************************************************************************)
(* State.  A behaviour exercises one deployment unit (tier): the Forge     *)
(* resolver functions, or the browser bundle; the two share no state.      *)
(*   snapshotId, throughput  the snapshot every call of the behaviour uses *)
(*   samples, useIssueCount  options the browser passes to runSimulation   *)
(*   trialCache              functions of the snapshot, evaluated once     *)
(*   calls                   the resolver calls made: payload and response *)
(*   runs, rng               the closure state of each runSimulation call  *)
(*   hook, abortRef          useSimulation's state and its abort ref       *)
(*   issues, clock           the items fetchAndAggregate works on and the  *)
(*                           instant new Date() returns while it does      *)
(*   weekly                  computeThroughput's return value, or the      *)
(*                           first argument of computeConfidence           *)
(*   estimationAccuracy      computeEstimationAccuracy's return value, or  *)
(*                           the second argument of computeConfidence      *)
(*   confidence              computeConfidence's return value              *)
(*   app                     the state of the App component and of the     *)
(*                           resolver invocation it awaits                 *)
(*   fetch                   the local variables of one fetchAllIssues     *)
(*                           call and how it ended                         *)
(*   reports                 the objects one runSimulation call has passed *)
(*                           to onProgress, in order                       *)
(***************************************************************************)
VARIABLES tier, snapshotId, throughput, samples, useIssueCount, trialCache,
          calls, runs, rng, hook, abortRef,
          issues, clock, weekly, estimationAccuracy, confidence,
          app, fetch, reports

vars == <<tier, snapshotId, throughput, samples, useIssueCount, trialCache,
          calls, runs, rng, hook, abortRef,
          issues, clock, weekly, estimationAccuracy, confidence,
          app, fetch, reports>>

aggregate == <<issues, clock, weekly, estimationAccuracy, confidence>>

client == <<app, fetch, reports>>

snapshot == <<tier, snapshotId, throughput, samples, useIssueCount, trialCache>>

CallIds == {1, 2}
RunIds == {1, 2}

Null == [null |-> TRUE]

\* no App is mounted, no fetch and no reporting run is under way
NoClient == app = Null /\ fetch = Null /\ reports = Null

NoCall == [kind |-> "none"]

IdleRun ==
    [status |-> "idle", args |-> Null, currentSample |-> 0, completionWeeks |-> <<>>,
     draws |-> 0, elapsed |-> 0, result |-> Null, aborted |-> FALSE]

BaselineCases == { <<WorkToComplete(r), UseIssueCount(r)>> : r \in Remainings }

EmptyRun == [rng |-> <<0, 0>>, completionWeeks |-> <<>>, draws |-> 0]

SimArgs(remainingWork, batchSize) ==
    [remainingWork |-> remainingWork, batchSize |-> batchSize, samples |-> samples,
     seed |-> snapshotId, useIssueCount |-> useIssueCount]

BackendCache ==
    [baseline |-> [cs \in BaselineCases |->
                      IF Len(throughput) = 0 THEN EmptyRun
                      ELSE BaselineTrials(throughput, snapshotId, cs[1], cs[2])],
     scenario |-> [w \in 0..MaxWork |->
                      IF ScenarioThrows(throughput, w) THEN EmptyRun
                      ELSE ScenarioTrials(throughput, snapshotId, w)]]

FrontendCache ==
    [solo |-> [a \in (0..MaxWork) \X BatchSizes |->
                  RunAlone(SimValues(throughput, useIssueCount), SimArgs(a[1], a[2]))]]

Init ==
    /\ tier \in {"backend", "frontend"}
    /\ snapshotId \in Seeds
    /\ throughput \in Throughputs
    /\ samples = (IF tier = "backend" THEN HandlerSamples ELSE MaxSamples)
    /\ useIssueCount = FALSE
    /\ trialCache = (IF tier = "backend" THEN BackendCache ELSE FrontendCache)
    /\ calls = [c \in CallIds |-> NoCall]
    /\ runs = [k \in RunIds |-> IdleRun]
    /\ rng = [k \in RunIds |-> <<0, 0>>]
    /\ hook = [isRunning |-> FALSE, progress |-> Null, result |-> Null, error |-> Null]
    /\ abortRef = FALSE
    /\ issues = Null
    /\ clock = Null
    /\ weekly = Null
    /\ estimationAccuracy = Null
    /\ confidence = Null
    /\ NoClient

(***************************************************************************)
(* Resolver calls.                                                         *)
(***************************************************************************)
FreeCall(c) ==
    /\ tier = "backend"
    /\ calls[c] = NoCall
    /\ \A d \in CallIds : d < c => calls[d] # NoCall

RecordCall(c, kind, payload, out) ==
    calls' = [calls EXCEPT ![c] =
                 [kind |-> kind, payload |-> payload, response |-> out.response,
                  trials |-> out.trials, draws |-> out.draws]]

BaselinePayload(remaining) ==
    [snapshotId |-> snapshotId, throughput |-> throughput, remaining |-> remaining]

ComputeBaseline(c) ==
    /\ FreeCall(c)
    /\ \E remaining \in Remainings, startTime \in Times, now \in Times :
          /\ startTime <= now
          /\ RecordCall(c, "baseline", BaselinePayload(remaining),
                        computeBaselineHandler(
                            BaselinePayload(remaining),
                            trialCache.baseline[<<WorkToComplete(remaining),
                                                  UseIssueCount(remaining)>>],
                            startTime, now))
    /\ UNCHANGED <<snapshot, aggregate, client, runs, rng, hook, abortRef>>

ComputeScenario(c) ==
    /\ FreeCall(c)
    /\ \E remaining \in 0..MaxWork, startTime \in Times, now \in Times :
          /\ startTime <= now
          /\ RecordCall(c, "scenario", BaselinePayload(remaining),
                        computeScenarioHandler(BaselinePayload(remaining),
                                               trialCache.scenario[remaining],
                                               startTime, now))
    /\ UNCHANGED <<snapshot, aggregate, client, runs, rng, hook, abortRef>>

(***************************************************************************)
(* useSimulation and runSimulation.                                        *)
(***************************************************************************)
\* variant: one generator at module level, used by every call
SharedRng(k) == 1

\* the generator a run's closure holds
RngOf(k) == k

InFlight(k) == runs[k].status \in {"running", "resolved"}

\* run(): the hook's writes, then runSimulation up to the end of its first,
\* synchronous runBatch; the await continuation is Settle
StartFailed(k, args) ==
    /\ runs' = [runs EXCEPT ![k] =
                   [IdleRun EXCEPT !.status = "resolved", !.args = args,
                                   !.result = SimFailure]]
    /\ rng' = [rng EXCEPT ![RngOf(k)] = createRng(hashCode(SimSeed(args.seed)))]
    /\ hook' = [isRunning |-> TRUE,
                progress  |-> [current |-> 0, total |-> args.samples, percent |-> 0],
                result    |-> Null,
                error     |-> Null]

FirstBatch(k, args, values, s) ==
    /\ rng' = [rng EXCEPT ![RngOf(k)] = s.rng]
    /\ \E elapsed \in Times :
          /\ hook' = [isRunning |-> TRUE,
                      progress  |-> ProgressReport(Len(s.completionWeeks), args.samples, elapsed),
                      result    |-> Null,
                      error     |-> Null]
          /\ IF Len(s.completionWeeks) < args.samples
             THEN runs' = [runs EXCEPT ![k] =
                              [IdleRun EXCEPT !.status = "running", !.args = args,
                                              !.currentSample = Len(s.completionWeeks),
                                              !.completionWeeks = s.completionWeeks,
                                              !.draws = s.draws, !.elapsed = elapsed]]
             ELSE \E totalTime \in elapsed..MaxNow :
                     runs' = [runs EXCEPT ![k] =
                                 [IdleRun EXCEPT !.status = "resolved", !.args = args,
                                                 !.currentSample = Len(s.completionWeeks),
                                                 !.completionWeeks = SortAsc(s.completionWeeks),
                                                 !.draws = s.draws, !.elapsed = totalTime,
                                                 !.result = SimResult(values, args.samples,
                                                                      SortAsc(s.completionWeeks),
                                                                      totalTime)]]

Start(k, args, values) ==
    IF Len(values) = 0
    THEN StartFailed(k, args)
    ELSE FirstBatch(k, args, values,
                    runBatch(values, args,
                             [rng |-> createRng(hashCode(SimSeed(args.seed))),
                              completionWeeks |-> <<>>, draws |-> 0]))

Run(k) ==
    /\ tier = "frontend"
    /\ runs[k].status = "idle"
    /\ \A j \in RunIds : j < k => runs[j].status # "idle"
    /\ \E remainingWork \in 0..MaxWork, batchSize \in BatchSizes :
          Start(k, SimArgs(remainingWork, batchSize), SimValues(throughput, useIssueCount))
    /\ abortRef' = FALSE
    /\ UNCHANGED <<snapshot, aggregate, client, calls>>

\* the await continuation of run()
Continue(result) ==
    IF abortRef THEN hook
    ELSE [hook EXCEPT !.result = result, !.isRunning = FALSE]

\* a timer callback: one runBatch; when the last batch resolves the promise,
\* the await continuation of run() follows in the same task
NextBatch(k, args, values, s) ==
    /\ rng' = [rng EXCEPT ![RngOf(k)] = s.rng]
    /\ \E elapsed \in runs[k].elapsed..MaxNow :
          IF Len(s.completionWeeks) < args.samples
          THEN /\ runs' = [runs EXCEPT ![k] =
                              [@ EXCEPT !.currentSample = Len(s.completionWeeks),
                                        !.completionWeeks = s.completionWeeks,
                                        !.draws = s.draws, !.elapsed = elapsed]]
               /\ hook' = IF abortRef THEN hook
                          ELSE [hook EXCEPT !.progress =
                                   ProgressReport(Len(s.completionWeeks), args.samples, elapsed)]
          ELSE \E totalTime \in elapsed..MaxNow :
                  /\ runs' = [runs EXCEPT ![k] =
                                 [@ EXCEPT !.status = "returned",
                                           !.currentSample = Len(s.completionWeeks),
                                           !.completionWeeks = SortAsc(s.completionWeeks),
                                           !.draws = s.draws, !.elapsed = totalTime,
                                           !.result = SimResult(values, args.samples,
                                                                SortAsc(s.completionWeeks),
                                                                totalTime)]]
                  /\ hook' = IF abortRef THEN hook
                             ELSE [isRunning |-> FALSE,
                                   progress  |-> ProgressReport(Len(s.completionWeeks),
                                                                args.samples, elapsed),
                                   result    |-> SimResult(values, args.samples,
                                                           SortAsc(s.completionWeeks),
                                                           totalTime),
                                   error     |-> hook.error]

RunBatch(k) ==
    /\ runs[k].status = "running"
    /\ \A j \in RunIds : runs[j].status # "resolved"
    /\ NextBatch(k, runs[k].args, SimValues(throughput, runs[k].args.useIssueCount),
                 runBatch(SimValues(throughput, runs[k].args.useIssueCount), runs[k].args,
                          [rng |-> rng[RngOf(k)],
                           completionWeeks |-> runs[k].completionWeeks,
                           draws |-> runs[k].draws]))
    /\ UNCHANGED <<snapshot, aggregate, client, calls, abortRef>>

Settle(k) ==
    /\ runs[k].status = "resolved"
    /\ runs' = [runs EXCEPT ![k].status = "returned"]
    /\ hook' = Continue(runs[k].result)
    /\ UNCHANGED <<snapshot, aggregate, client, calls, rng, abortRef>>

Abort ==
    /\ \E k \in RunIds : InFlight(k)
    /\ abortRef' = TRUE
    /\ hook' = [hook EXCEPT !.isRunning = FALSE]
    /\ runs' = [k \in RunIds |->
                   IF InFlight(k) THEN [runs[k] EXCEPT !.aborted = TRUE] ELSE runs[k]]
    /\ UNCHANGED <<snapshot, aggregate, client, calls, rng>>

Reset ==
    /\ tier = "frontend"
    /\ hook.progress # Null \/ hook.result # Null
    /\ hook' = [hook EXCEPT !.progress = Null, !.result = Null, !.error = Null]
    /\ UNCHANGED <<snapshot, aggregate, client, calls, runs, rng, abortRef>>

Next ==
    \/ \E c \in CallIds : ComputeBaseline(c)
    \/ \E c \in CallIds : ComputeScenario(c)
    \/ \E k \in RunIds : Run(k)
    \/ \E k \in RunIds : RunBatch(k)
    \/ \E k \in RunIds : Settle(k)
    \/ Abort
    \/ Reset

Spec == Init /\ [][Next]_vars

(***************************************************************************)
(* fetchAndAggregate: dates.  An instant is a whole number of ticks since  *)
(* 1970-01-01T00:00Z, TicksPerDay ticks to the day.  The resolver runs on  *)
(* a UTC clock, so Date's local getters (getDay, getDate, setDate) and     *)
(* toISOString() read the same calendar.  A date string other than null    *)
(* is <<t>>, t the instant new Date(string) yields; null is <<>>.          *)
(***************************************************************************)
At(day, part) == day * TicksPerDay + part

\* the calendar day an instant falls on, counted from 1970-01-01
DayOf(t) == t \div TicksPerDay

\* Date.prototype.getDay: 0 is Sunday; 1970-01-01 was a Thursday
getDay(t) == (DayOf(t) + 4) % 7

\* the proleptic Gregorian date <<year, month, day>> of a day number
CivilFromDays(z) ==
    LET era == (z + 719468) \div 146097
        doe == (z + 719468) - era * 146097
        yoe == (doe - doe \div 1460 + doe \div 36524 - doe \div 146096) \div 365
        doy == doe - (365 * yoe + yoe \div 4 - yoe \div 100)
        mp  == (5 * doy + 2) \div 153
        d   == doy - (153 * mp + 2) \div 5 + 1
        m   == IF mp < 10 THEN mp + 3 ELSE mp - 9
    IN  <<yoe + era * 400 + (IF m <= 2 THEN 1 ELSE 0), m, d>>

\* toISOString().split('T')[0]: 'YYYY-MM-DD', kept as <<YYYY, MM, DD>>
toISODate(t) == CivilFromDays(DayOf(t))

\* String.prototype.localeCompare on two 'YYYY-MM-DD' strings: the fields
\* are zero-padded, so the first differing field decides
localeCompare(a, b) ==
    IF a = b THEN 0
    ELSE IF \/ a[1] < b[1]
            \/ a[1] = b[1] /\ a[2] < b[2]
            \/ a[1] = b[1] /\ a[2] = b[2] /\ a[3] < b[3]
         THEN -1 ELSE 1

\* variant: Sunday taken as the first day of its week
getWeekStartSundayFirst(date) == date + (0 - getDay(date) + 1) * TicksPerDay

\* d.setDate(d.getDate() - day + (day === 0 ? -6 : 1)): the time of day stays
getWeekStart(date) ==
    date + (0 - getDay(date) + (IF getDay(date) = 0 THEN -6 ELSE 1)) * TicksPerDay

cutoffDate(now) == now - weeksAgo * 7 * TicksPerDay

(***************************************************************************)
(* Issues as transformIssue leaves them: storyPoints is a nonzero number   *)
(* or null, and null is carried as 0 (every use is `storyPoints || 0` or   *)
(* `!storyPoints`).                                                        *)
(***************************************************************************)
\* the filter of lines 84-88
Resolved(issue, now) ==
    /\ issue.statusCategory = "Done"
    /\ issue.resolved # Absent
    /\ issue.resolved[1] >= cutoffDate(now)

resolvedIssues(all, now) == SelectSeq(all, LAMBDA issue : Resolved(issue, now))

weekKey(issue) == toISODate(getWeekStart(issue.resolved[1]))

HasWeek(weeklyMap, key) == \E i \in DOMAIN weeklyMap : weeklyMap[i].weekStart = key

\* lines 94-104: one pass of the loop; weeklyMap in insertion order
AddToWeek(weeklyMap, issue) ==
    LET created == IF HasWeek(weeklyMap, weekKey(issue)) THEN weeklyMap
                   ELSE Append(weeklyMap, [weekStart |-> weekKey(issue),
                                           issuesCompleted |-> 0,
                                           pointsCompleted |-> 0])
    IN  [i \in DOMAIN created |->
            IF created[i].weekStart = weekKey(issue)
            THEN [created[i] EXCEPT !.issuesCompleted = @ + 1,
                                    !.pointsCompleted = @ + issue.storyPoints]
            ELSE created[i]]

RECURSIVE WeeklyMap(_, _)
WeeklyMap(resolved, weeklyMap) ==
    IF resolved = <<>> THEN weeklyMap
    ELSE WeeklyMap(Tail(resolved), AddToWeek(weeklyMap, Head(resolved)))

RECURSIVE InsertWeek(_, _)
InsertWeek(sorted, week) ==
    IF sorted = <<>> THEN <<week>>
    ELSE IF localeCompare(week.weekStart, Head(sorted).weekStart) < 0
         THEN <<week>> \o sorted
         ELSE <<Head(sorted)>> \o InsertWeek(Tail(sorted), week)

\* variant: the weeks left in the order the Map met them
WeeksAsMet(weeks) == weeks

\* .sort((a, b) => a.weekStart.localeCompare(b.weekStart))
RECURSIVE SortWeeks(_)
SortWeeks(weeks) ==
    IF weeks = <<>> THEN <<>>
    ELSE InsertWeek(SortWeeks(SubSeq(weeks, 1, Len(weeks) - 1)), weeks[Len(weeks)])

\* a mean as the fraction <<sum, count>>; 0 of an empty series
Average(values) == IF Len(values) > 0 THEN <<SumSeq(values), Len(values)>> ELSE <<0, 1>>

computeThroughput(all, now) ==
    LET sorted == SortWeeks(WeeklyMap(resolvedIssues(all, now), <<>>))
        issuesPerWeek == [i \in DOMAIN sorted |-> sorted[i].issuesCompleted]
        pointsPerWeek == [i \in DOMAIN sorted |-> sorted[i].pointsCompleted]
    IN  [weeklyData       |-> sorted,
         issuesPerWeek    |-> issuesPerWeek,
         pointsPerWeek    |-> pointsPerWeek,
         avgIssuesPerWeek |-> Average(issuesPerWeek),
         avgPointsPerWeek |-> Average(pointsPerWeek),
         weeksAnalyzed    |-> Len(sorted)]

\* computeBaseline.js lines 26-32: the weekly series as the handler reads it
throughputDataOf(throughputObject) ==
    [i \in DOMAIN throughputObject.weeklyData |->
        [points_completed |-> throughputObject.weeklyData[i].pointsCompleted,
         issues_completed |-> throughputObject.weeklyData[i].issuesCompleted,
         week_start       |-> throughputObject.weeklyData[i].weekStart]]

(***************************************************************************)
(* The aggregator on its own: the items are drawn at the start, the clock  *)
(* is read when computeThroughput runs.                                    *)
(***************************************************************************)
\* instants around the window's two ends, a Sunday, a Monday, a new year
ResolvedDates ==
    { Absent,
      <<At(20019, 0)>>,      \* Wed 2024-10-23, the morning
      <<At(20019, 1)>>,      \* Wed 2024-10-23, later that day
      <<At(20086, 1)>>,      \* Sun 2024-12-29
      <<At(20087, 0)>>,      \* Mon 2024-12-30
      <<At(20089, 0)>>,      \* Wed 2025-01-01
      <<At(20093, 1)>>,      \* Sun 2025-01-05
      <<At(20094, 0)>>,      \* Mon 2025-01-06
      <<At(20104, 0)>> }     \* Thu 2025-01-16

\* Wed 2025-01-15 later in the day, and the Sunday before it
Nows == { At(20103, 1), At(20100, 0) }

Items ==
    [statusCategory : {"Done", "To Do"},
     resolved       : ResolvedDates,
     created        : {Absent},
     storyPoints    : {0, 3}]

Unused ==
    /\ snapshotId = Absent
    /\ throughput = <<>>
    /\ samples = 0
    /\ useIssueCount = FALSE
    /\ trialCache = Null
    /\ calls = [c \in CallIds |-> NoCall]
    /\ runs = [k \in RunIds |-> IdleRun]
    /\ rng = [k \in RunIds |-> <<0, 0>>]
    /\ hook = [isRunning |-> FALSE, progress |-> Null, result |-> Null, error |-> Null]
    /\ abortRef = FALSE
    /\ NoClient

simulation == <<snapshot, calls, runs, rng, hook, abortRef, client>>

AggregatorInit ==
    /\ tier = "aggregator"
    /\ Unused
    /\ issues \in SeqsUpTo(Items, MaxIssues)
    /\ clock = Null
    /\ weekly = Null
    /\ estimationAccuracy = Null
    /\ confidence = Null

ComputeThroughput ==
    /\ tier = "aggregator"
    /\ weekly = Null
    /\ \E now \in Nows :
          /\ clock' = now
          /\ weekly' = computeThroughput(issues, now)
    /\ UNCHANGED <<simulation, issues, estimationAccuracy, confidence>>

AggregatorNext == ComputeThroughput

Aggregator == AggregatorInit /\ [][AggregatorNext]_vars

(***************************************************************************)
(* computeEstimationAccuracy.  Numbers the code rounds to one decimal      *)
(* (Math.round(x * 10) / 10) are carried in tenths; a mean that is not     *)
(* rounded is carried as its sum and its count.  Binary floating point is  *)
(* taken as exact arithmetic.  key, summary and issueType of an item are   *)
(* copied through and not carried.                                         *)
(***************************************************************************)
\* Math.round(10 * num / den), den > 0
Tenths(num, den) == Round(10 * num, den)

RECURSIVE IsqrtIn(_, _, _)
IsqrtIn(x, lo, hi) ==
    IF lo >= hi THEN lo
    ELSE IF ((lo + hi + 1) \div 2) * ((lo + hi + 1) \div 2) <= x
         THEN IsqrtIn(x, (lo + hi + 1) \div 2, hi)
         ELSE IsqrtIn(x, lo, (lo + hi + 1) \div 2 - 1)

\* Math.floor(Math.sqrt(x)), 0 <= x < 2^31
Isqrt(x) == IsqrtIn(x, 0, 46340)

\* variant: an item qualifies whatever its state
QualifiesAnyState(issue, now) ==
    /\ issue.resolved # Absent /\ issue.created # Absent
    /\ issue.storyPoints > 0
    /\ issue.resolved[1] >= cutoffDate(now)

\* the filter of lines 346-352
Qualifies(issue, now) ==
    /\ issue.statusCategory = "Done"
    /\ issue.resolved # Absent /\ issue.created # Absent
    /\ issue.storyPoints > 0
    /\ issue.resolved[1] >= cutoffDate(now)

completedWithEstimates(all, now) == SelectSeq(all, LAMBDA issue : Qualifies(issue, now))

\* lines 363-377
issueMetric(issue) ==
    [storyPoints   |-> issue.storyPoints,
     cycleTimeDays |-> Tenths(issue.resolved[1] - issue.created[1], TicksPerDay),
     daysPerPoint  |-> Tenths(issue.resolved[1] - issue.created[1],
                              TicksPerDay * issue.storyPoints)]

\* the keys of byPointValue in the order the Map met them
RECURSIVE PointValues(_, _)
PointValues(metrics, met) ==
    IF metrics = <<>> THEN met
    ELSE PointValues(Tail(metrics),
                     IF \E i \in DOMAIN met : met[i] = Head(metrics).storyPoints
                     THEN met ELSE Append(met, Head(metrics).storyPoints))

SumOfSquares(values) == SumSeq([i \in DOMAIN values |-> values[i] * values[i]])

\* Math.round(stdDev / avgCycleTime * 100) of lines 398-400, 409: with S the
\* sum and n the count, stdDev / avg = sqrt(n * sum of squares - S * S) / S
Variability(cycleTimes) ==
    IF SumSeq(cycleTimes) > 0
    THEN (Isqrt(40000 * (Len(cycleTimes) * SumOfSquares(cycleTimes)
                         - SumSeq(cycleTimes) * SumSeq(cycleTimes)))
          + SumSeq(cycleTimes)) \div (2 * SumSeq(cycleTimes))
    ELSE 0

\* lines 391-411: the statistics of one point value
PointValueStat(points, metrics) ==
    LET cycleTimes == [i \in DOMAIN metrics |-> metrics[i].cycleTimeDays]
        daysPerPointValues == [i \in DOMAIN metrics |-> metrics[i].daysPerPoint]
    IN  [storyPoints      |-> points,
         count            |-> Len(metrics),
         avgCycleTimeDays |-> Round(SumSeq(cycleTimes), Len(cycleTimes)),
         minCycleTime     |-> MinOf(Range(cycleTimes)),
         maxCycleTime     |-> MaxOf(Range(cycleTimes)),
         avgDaysPerPoint  |-> Round(SumSeq(daysPerPointValues), Len(daysPerPointValues)),
         variability      |-> Variability(cycleTimes)]

RECURSIVE InsertStat(_, _)
InsertStat(sorted, stat) ==
    IF sorted = <<>> THEN <<stat>>
    ELSE IF stat.storyPoints < Head(sorted).storyPoints THEN <<stat>> \o sorted
    ELSE <<Head(sorted)>> \o InsertStat(Tail(sorted), stat)

\* .sort((a, b) => a.storyPoints - b.storyPoints)
RECURSIVE SortByPoints(_)
SortByPoints(stats) ==
    IF stats = <<>> THEN <<>>
    ELSE InsertStat(SortByPoints(SubSeq(stats, 1, Len(stats) - 1)), stats[Len(stats)])

pointValueStats(issueMetrics) ==
    LET met == PointValues(issueMetrics, <<>>)
    IN  SortByPoints([g \in DOMAIN met |->
                         PointValueStat(met[g],
                                        SelectSeq(issueMetrics,
                                                  LAMBDA metric : metric.storyPoints = met[g]))])

(***************************************************************************)
(* detectEstimationBias.  A quotient of the code is a JavaScript number    *)
(* that need not be finite: [is, num, den] with is one of "number" (the    *)
(* fraction num / den), "Infinity" and "NaN".  Cycle times are not         *)
(* negative, so no quotient is.                                            *)
(***************************************************************************)
Finite(num, den) == [is |-> "number", num |-> num, den |-> den]
NaN == [is |-> "NaN", num |-> 0, den |-> 1]
Infinity == [is |-> "Infinity", num |-> 0, den |-> 1]

\* a / b
Divide(a, b) == IF b # 0 THEN Finite(a, b) ELSE IF a = 0 THEN NaN ELSE Infinity

\* x + y
Plus(x, y) ==
    IF x.is = "NaN" \/ y.is = "NaN" THEN NaN
    ELSE IF x.is = "Infinity" \/ y.is = "Infinity" THEN Infinity
    ELSE Finite(x.num * y.den + y.num * x.den, x.den * y.den)

\* x < a / b and x > a / b; false of NaN
Below(x, a, b) == x.is = "number" /\ b * x.num < a * x.den
Above(x, a, b) == x.is = "Infinity" \/ (x.is = "number" /\ b * x.num > a * x.den)

\* lines 459-463: actualTimeRatio / pointRatio
Accuracy(lower, higher) ==
    IF Divide(higher.avgCycleTimeDays, lower.avgCycleTimeDays).is = "number"
    THEN Finite(higher.avgCycleTimeDays * lower.storyPoints,
                lower.avgCycleTimeDays * higher.storyPoints)
    ELSE Divide(higher.avgCycleTimeDays, lower.avgCycleTimeDays)

\* the loop of lines 454-466 from pair i on
RECURSIVE LinearityScore(_, _)
LinearityScore(sortedByPoints, i) ==
    IF i >= Len(sortedByPoints) THEN Finite(0, 1)
    ELSE Plus(Accuracy(sortedByPoints[i], sortedByPoints[i + 1]),
              LinearityScore(sortedByPoints, i + 1))

\* line 468, for comparisons > 0
AvgLinearity(sortedByPoints) ==
    LET linearityScore == LinearityScore(sortedByPoints, 1)
    IN  IF linearityScore.is = "number"
        THEN Finite(linearityScore.num, linearityScore.den * (Len(sortedByPoints) - 1))
        ELSE linearityScore

\* variant: the upper bounds 1.2 and 1.5 belong to the band above them
BiasTypeInclusive(avgLinearity) ==
    IF Below(avgLinearity, 1, 2) THEN "severe_overestimation"
    ELSE IF Below(avgLinearity, 4, 5) THEN "moderate_overestimation"
    ELSE IF ~Below(avgLinearity, 3, 2) THEN "severe_underestimation"
    ELSE IF ~Below(avgLinearity, 6, 5) THEN "moderate_underestimation"
    ELSE "well_calibrated"

\* lines 471-501
BiasType(avgLinearity) ==
    IF Below(avgLinearity, 1, 2) THEN "severe_overestimation"
    ELSE IF Below(avgLinearity, 4, 5) THEN "moderate_overestimation"
    ELSE IF Above(avgLinearity, 3, 2) THEN "severe_underestimation"
    ELSE IF Above(avgLinearity, 6, 5) THEN "moderate_underestimation"
    ELSE "well_calibrated"

\* score is Math.round(avgLinearity * 100) when scoreIs = "number"; scoreIs
\* tells what the score property holds otherwise
detectEstimationBias(stats) ==
    IF Len(stats) < 2
    THEN [type |-> "insufficient_data", score |-> 0, scoreIs |-> "undefined"]
    ELSE [type    |-> BiasType(AvgLinearity(SortByPoints(stats))),
          score   |-> IF AvgLinearity(SortByPoints(stats)).is = "number"
                      THEN Round(100 * AvgLinearity(SortByPoints(stats)).num,
                                 AvgLinearity(SortByPoints(stats)).den)
                      ELSE 0,
          scoreIs |-> AvgLinearity(SortByPoints(stats)).is]

(***************************************************************************)
(* generateEstimationRecommendations: type, priority, affectedPoints and   *)
(* suggestedMultiplier of each record; titles and details are text.  The   *)
(* multiplier Math.round(bias.score) / 100 is carried in hundredths.       *)
(* avgDaysPerPoint is the unrounded mean <<sum, count>> in tenths.         *)
(***************************************************************************)
IsHighVariability(p) == p.variability > 50 /\ p.count >= 3

Underestimation(bias) ==
    bias.type \in {"severe_underestimation", "moderate_underestimation"}

Overestimation(bias) ==
    bias.type \in {"severe_overestimation", "moderate_overestimation"}

\* stat.count >= 3 && stat.avgDaysPerPoint > avgDaysPerPoint * 1.5
IsSlow(stat, avgDaysPerPoint) ==
    stat.count >= 3 /\ 2 * stat.avgDaysPerPoint * avgDaysPerPoint[2] > 3 * avgDaysPerPoint[1]

PointsOf(stats) == [i \in DOMAIN stats |-> stats[i].storyPoints]

generateEstimationRecommendations(stats, bias, avgDaysPerPoint) ==
    LET highVariability ==
            IF Len(SelectSeq(stats, IsHighVariability)) > 0
            THEN << [type |-> "high_variability", priority |-> "high",
                     affectedPoints |-> PointsOf(SelectSeq(stats, IsHighVariability))] >>
            ELSE <<>>
        under ==
            IF Underestimation(bias)
            THEN << [type |-> "underestimation",
                     priority |-> IF bias.type = "severe_underestimation"
                                  THEN "high" ELSE "medium",
                     suggestedMultiplier |-> [is |-> bias.scoreIs,
                                              hundredths |-> bias.score]] >>
            ELSE <<>>
        over ==
            IF Overestimation(bias)
            THEN << [type |-> "overestimation",
                     priority |-> IF bias.type = "severe_overestimation"
                                  THEN "high" ELSE "medium"] >>
            ELSE <<>>
        slowStats == SelectSeq(stats, LAMBDA stat : IsSlow(stat, avgDaysPerPoint))
        slow == [i \in DOMAIN slowStats |->
                    [type |-> "slow_point_value", priority |-> "medium",
                     affectedPoints |-> <<slowStats[i].storyPoints>>]]
        recommendations == highVariability \o under \o over \o slow
    IN  IF Len(recommendations) = 0 /\ bias.type = "well_calibrated"
        THEN << [type |-> "well_calibrated", priority |-> "info"] >>
        ELSE recommendations

\* line 354: the least number of qualifying items
MinimumSample == 3

computeEstimationAccuracy(all, now) ==
    LET completed == completedWithEstimates(all, now)
        issueMetrics == [i \in DOMAIN completed |-> issueMetric(completed[i])]
        stats == pointValueStats(issueMetrics)
        allDaysPerPoint == [i \in DOMAIN issueMetrics |-> issueMetrics[i].daysPerPoint]
    IN  IF Len(completed) < MinimumSample
        THEN [sampleSize |-> Len(completed), insufficient |-> TRUE]
        ELSE [sampleSize             |-> Len(completed),
              insufficient           |-> FALSE,
              overallAvgDaysPerPoint |-> Round(SumSeq(allDaysPerPoint), Len(allDaysPerPoint)),
              byPointValue           |-> stats,
              estimationBias         |-> detectEstimationBias(stats),
              recommendations        |->
                  generateEstimationRecommendations(
                      stats, detectEstimationBias(stats),
                      <<SumSeq(allDaysPerPoint), Len(allDaysPerPoint)>>),
              issueMetrics           |-> issueMetrics]

(***************************************************************************)
(* The analyzer on its own.  Every item but one was completed on Monday    *)
(* 2025-01-06; an item differs from the others in its declared size and    *)
(* in how long before its completion it was created.                       *)
(***************************************************************************)
\* ticks from creation to completion
CycleTicks == {0, 1, 2, 4, 6}

StoryPoints == {1, 2, 3}

Sized ==
    { [statusCategory |-> "Done", resolved |-> <<At(20094, 0)>>,
       created |-> <<At(20094, 0) - c>>, storyPoints |-> p] :
         c \in CycleTicks, p \in StoryPoints }

\* items that fail one test of the filter each
Disqualified ==
    { [statusCategory |-> "To Do", resolved |-> <<At(20094, 0)>>,
       created |-> <<At(20094, 0) - 2>>, storyPoints |-> 2],
      [statusCategory |-> "Done", resolved |-> <<At(20094, 0)>>,
       created |-> Absent, storyPoints |-> 2],
      [statusCategory |-> "Done", resolved |-> <<At(20094, 0)>>,
       created |-> <<At(20094, 0) - 2>>, storyPoints |-> 0],
      [statusCategory |-> "Done", resolved |-> <<At(20019, 0)>>,
       created |-> <<At(20019, 0) - 2>>, storyPoints |-> 2] }

AnalyzerInit ==
    /\ tier = "analyzer"
    /\ Unused
    /\ issues \in SeqsUpTo(Sized \cup Disqualified, MaxCompleted)
    /\ clock = Null
    /\ weekly = Null
    /\ estimationAccuracy = Null
    /\ confidence = Null

ComputeEstimationAccuracy ==
    /\ tier = "analyzer"
    /\ estimationAccuracy = Null
    /\ clock' = At(20103, 1)
    /\ estimationAccuracy' = computeEstimationAccuracy(issues, At(20103, 1))
    /\ UNCHANGED <<simulation, issues, weekly, confidence>>

AnalyzerNext == ComputeEstimationAccuracy

Analyzer == AnalyzerInit /\ [][AnalyzerNext]_vars

(***************************************************************************)
(* computeConfidence.  An argument that may be missing is <<>> when it is, *)
(* <<value>> when it is not.  Messages and rationales are text and are     *)
(* not carried.                                                            *)
(***************************************************************************)
\* variant: two weeks are taken as enough
TooFewBelowTwo(throughputData) ==
    throughputData = Absent \/ Len(throughputData[1]) < 2

\* !throughputData || throughputData.length < 3
TooFew(throughputData) ==
    throughputData = Absent \/ Len(throughputData[1]) < 3

\* stdDev / mean * 100 < limit, for mean > 0: with S the sum and n the count,
\* stdDev / mean = sqrt(n * sum of squares - S * S) / S
CvBelow(velocities, limit) ==
    10000 * (Len(velocities) * SumOfSquares(velocities)
             - SumSeq(velocities) * SumSeq(velocities))
        < limit * limit * SumSeq(velocities) * SumSeq(velocities)

\* Math.round(stdDev * 10), stdDev = sqrt(n * sum of squares - S * S) / n
StdDevTenths(velocities) ==
    (Isqrt(400 * (Len(velocities) * SumOfSquares(velocities)
                  - SumSeq(velocities) * SumSeq(velocities)))
     + Len(velocities)) \div (2 * Len(velocities))

\* lines 57-74
StabilityLevel(velocities) ==
    IF SumSeq(velocities) <= 0 \/ CvBelow(velocities, 15) THEN "very_stable"
    ELSE IF CvBelow(velocities, 25) THEN "stable"
    ELSE IF CvBelow(velocities, 40) THEN "moderate"
    ELSE IF CvBelow(velocities, 60) THEN "volatile"
    ELSE "highly_volatile"

StabilityScore(level) ==
    CASE level = "very_stable" -> 95
      [] level = "stable" -> 80
      [] level = "moderate" -> 60
      [] level = "volatile" -> 40
      [] OTHER -> 20

\* variant: a series that does not improve is declining
TrendNeverStable(velocities) ==
    IF SumSeq(SubSeq(velocities, Len(velocities) \div 2 + 1, Len(velocities)))
           * (Len(velocities) \div 2)
       > SumSeq(SubSeq(velocities, 1, Len(velocities) \div 2))
           * (Len(velocities) - Len(velocities) \div 2)
    THEN "improving" ELSE "declining"

\* lines 48-52: the means of the two halves compared
Trend(velocities) ==
    LET half == Len(velocities) \div 2
        firstHalf == SubSeq(velocities, 1, half)
        secondHalf == SubSeq(velocities, half + 1, Len(velocities))
    IN  IF SumSeq(secondHalf) * Len(firstHalf) > SumSeq(firstHalf) * Len(secondHalf)
        THEN "improving"
        ELSE IF SumSeq(secondHalf) * Len(firstHalf) < SumSeq(firstHalf) * Len(secondHalf)
             THEN "declining" ELSE "stable"

Max2(a, b) == IF a > b THEN a ELSE b

analyzeVelocityStability(throughputData) ==
    IF TooFew(throughputData)
    THEN [score   |-> 0,
          level   |-> "insufficient_data",
          details |-> [sampleSize |-> IF throughputData = Absent THEN 0
                                      ELSE Len(throughputData[1]),
                       coefficient_of_variation |-> Null,
                       trend |-> Null]]
    ELSE LET velocities == [i \in DOMAIN throughputData[1] |->
                               throughputData[1][i].pointsCompleted]
         IN  [score   |-> IF Trend(velocities) = "declining"
                          THEN Max2(20, StabilityScore(StabilityLevel(velocities)) - 15)
                          ELSE StabilityScore(StabilityLevel(velocities)),
              level   |-> StabilityLevel(velocities),
              details |-> [sampleSize |-> Len(velocities),
                           mean       |-> Tenths(SumSeq(velocities), Len(velocities)),
                           stdDev     |-> StdDevTenths(velocities),
                           coefficient_of_variation |-> Variability(velocities),
                           trend      |-> Trend(velocities),
                           min        |-> MinOf(Range(velocities)),
                           max        |-> MaxOf(Range(velocities))]]

\* estimationAccuracy.estimationBias?.score || 100
BiasScore(accuracy) ==
    IF "estimationBias" \notin DOMAIN accuracy THEN Finite(100, 1)
    ELSE IF accuracy.estimationBias.scoreIs = "Infinity" THEN Infinity
    ELSE IF accuracy.estimationBias.scoreIs = "number" /\ accuracy.estimationBias.score # 0
         THEN Finite(accuracy.estimationBias.score, 1)
         ELSE Finite(100, 1)

\* biasScore >= lo && biasScore <= hi
Within(biasScore, lo, hi) ==
    biasScore.is = "number" /\ biasScore.num >= lo /\ biasScore.num <= hi

CalibrationLevel(biasScore) ==
    IF Within(biasScore, 95, 105) THEN "well_calibrated"
    ELSE IF Within(biasScore, 85, 115) THEN "acceptable"
    ELSE IF Within(biasScore, 70, 130) THEN "needs_adjustment"
    ELSE "poorly_calibrated"

CalibrationScore(level) ==
    CASE level = "well_calibrated" -> 90
      [] level = "acceptable" -> 75
      [] level = "needs_adjustment" -> 55
      [] OTHER -> 35

\* estimationAccuracy.recommendations || []
RecommendationsOf(accuracy) ==
    IF "recommendations" \in DOMAIN accuracy THEN accuracy.recommendations ELSE <<>>

CountType(recommendations, types) ==
    Cardinality({ i \in DOMAIN recommendations : recommendations[i].type \in types })

\* lines 137-145: the two penalties, in order
Penalized(score, highVariabilityIssues, biasWarnings) ==
    LET afterVariability == IF highVariabilityIssues > 2 THEN Max2(20, score - 20) ELSE score
    IN  IF biasWarnings > 1 THEN Max2(30, afterVariability - 25) ELSE afterVariability

analyzeEstimationConfidence(estimationAccuracyArg) ==
    IF estimationAccuracyArg = Absent \/ estimationAccuracyArg[1].insufficient
    THEN [score   |-> 50,
          level   |-> "insufficient_data",
          details |-> [sampleSize |-> IF estimationAccuracyArg = Absent THEN 0
                                      ELSE estimationAccuracyArg[1].sampleSize,
                       bias_score |-> Null]]
    ELSE LET accuracy == estimationAccuracyArg[1]
             highVariabilityIssues ==
                 CountType(RecommendationsOf(accuracy), {"high_variability"})
             biasWarnings ==
                 CountType(RecommendationsOf(accuracy), {"underestimation", "overestimation"})
         IN  [score   |-> Penalized(CalibrationScore(CalibrationLevel(BiasScore(accuracy))),
                                    highVariabilityIssues, biasWarnings),
              level   |-> CalibrationLevel(BiasScore(accuracy)),
              details |-> [sampleSize |-> accuracy.sampleSize,
                           bias_score |-> BiasScore(accuracy),
                           high_variability_count |-> highVariabilityIssues]]

\* variant: each threshold must be exceeded
RecommendedAbove(sum) ==
    IF sum > 160 THEN "P50"
    ELSE IF sum > 120 THEN "P80"
    ELSE IF sum > 80 THEN "P95"
    ELSE "CUSTOM"

\* lines 168-180 on sum = velocityScore + estimationScore, combinedScore = sum / 2
Recommended(sum) ==
    IF sum >= 160 THEN "P50"
    ELSE IF sum >= 120 THEN "P80"
    ELSE IF sum >= 80 THEN "P95"
    ELSE "CUSTOM"

\* called without simulationResults: percentiles is {}
determineRecommendation(velocityStability, estimationConfidence) ==
    [percentile      |-> Recommended(velocityStability.score + estimationConfidence.score),
     confidenceScore |-> Round(velocityStability.score + estimationConfidence.score, 2),
     breakdown       |-> [velocityStabilityScore  |-> velocityStability.score,
                          estimationAccuracyScore |-> estimationConfidence.score]]

\* Math.min(95, Math.max(20, Math.round(baseConfidence)))
calculateOverallConfidence(velocityStability, estimationConfidence) ==
    Min2(95, Max2(20, Round(velocityStability.score + estimationConfidence.score, 2)))

computeConfidence(throughputData, estimationAccuracyArg) ==
    [velocityStability    |-> analyzeVelocityStability(throughputData),
     estimationConfidence |-> analyzeEstimationConfidence(estimationAccuracyArg),
     recommendation       |->
         determineRecommendation(analyzeVelocityStability(throughputData),
                                 analyzeEstimationConfidence(estimationAccuracyArg)),
     confidence           |->
         calculateOverallConfidence(analyzeVelocityStability(throughputData),
                                    analyzeEstimationConfidence(estimationAccuracyArg))]

(***************************************************************************)
(* The scorer on its own: a weekly series (or none) and an estimation      *)
(* profile (or none, or the insufficient marker) are drawn at the start.   *)
(***************************************************************************)
Velocities == { [pointsCompleted |-> v] : v \in {0, 1, 2, 3, 4, 5} }

WeeklySeries == { Absent } \cup { <<w>> : w \in SeqsUpTo(Velocities, MaxWeeks) }

Biases ==
    { [type |-> "insufficient_data", score |-> 0, scoreIs |-> "undefined"],
      [type |-> "well_calibrated", score |-> 0, scoreIs |-> "NaN"],
      [type |-> "severe_underestimation", score |-> 0, scoreIs |-> "Infinity"],
      [type |-> "severe_overestimation", score |-> 0, scoreIs |-> "number"],
      [type |-> "severe_overestimation", score |-> 40, scoreIs |-> "number"],
      [type |-> "moderate_overestimation", score |-> 75, scoreIs |-> "number"],
      [type |-> "well_calibrated", score |-> 90, scoreIs |-> "number"],
      [type |-> "well_calibrated", score |-> 100, scoreIs |-> "number"],
      [type |-> "moderate_underestimation", score |-> 140, scoreIs |-> "number"] }

HighVariabilityFlags ==
    { <<>>,
      << [type |-> "high_variability", priority |-> "high", affectedPoints |-> <<1>>],
         [type |-> "high_variability", priority |-> "high", affectedPoints |-> <<2>>],
         [type |-> "high_variability", priority |-> "high", affectedPoints |-> <<3>>] >> }

BiasFlags ==
    { <<>>,
      << [type |-> "underestimation", priority |-> "medium"] >>,
      << [type |-> "underestimation", priority |-> "medium"],
         [type |-> "overestimation", priority |-> "medium"] >> }

Profiles ==
    { Absent,
      << [sampleSize |-> 2, insufficient |-> TRUE] >>,
      << [sampleSize |-> 3, insufficient |-> FALSE] >> }
    \cup { << [sampleSize |-> 3, insufficient |-> FALSE, estimationBias |-> bias,
               recommendations |-> high \o flags] >> :
             bias \in Biases, high \in HighVariabilityFlags, flags \in BiasFlags }

ScorerInit ==
    /\ tier = "scorer"
    /\ Unused
    /\ issues = Null
    /\ clock = Null
    /\ weekly \in WeeklySeries
    /\ estimationAccuracy \in Profiles
    /\ confidence = Null

ComputeConfidence ==
    /\ tier = "scorer"
    /\ confidence = Null
    /\ confidence' = computeConfidence(weekly, estimationAccuracy)
    /\ UNCHANGED <<simulation, issues, clock, weekly, estimationAccuracy>>

ScorerNext == ComputeConfidence

Scorer == ScorerInit /\ [][ScorerNext]_vars

(***************************************************************************)
(* Steps 3, 6 and 7 of the fetchAndAggregate handler on the items one      *)
(* fetch returned: the throughput, the estimation profile and the          *)
(* confidence computed from both.  The items are Done, completed on Monday *)
(* 2025-01-06, and come in one group per declared size.                    *)
(***************************************************************************)
\* ticks from creation to completion of the items of one size
CyclePatterns ==
    { <<>>, <<4>>, <<2, 2, 2>>, <<4, 4, 4>>, <<1, 1, 6>>, <<1, 6, 6>>, <<0, 4, 8>> }

SizeGroup(points, pattern) ==
    [i \in DOMAIN pattern |->
        [statusCategory |-> "Done", resolved |-> <<At(20094, 0)>>,
         created |-> <<At(20094, 0) - pattern[i]>>, storyPoints |-> points]]

ProfilerInit ==
    /\ tier = "profiler"
    /\ Unused
    /\ \E one \in CyclePatterns, two \in CyclePatterns, three \in CyclePatterns :
          issues = SizeGroup(1, one) \o SizeGroup(2, two) \o SizeGroup(3, three)
    /\ clock = Null
    /\ weekly = Null
    /\ estimationAccuracy = Null
    /\ confidence = Null

\* lines 29-44, with new Date() read once
Aggregate ==
    /\ tier = "profiler"
    /\ confidence = Null
    /\ clock' = At(20103, 1)
    /\ weekly' = computeThroughput(issues, At(20103, 1))
    /\ estimationAccuracy' = computeEstimationAccuracy(issues, At(20103, 1))
    /\ confidence' = computeConfidence(<<computeThroughput(issues, At(20103, 1)).weeklyData>>,
                                       <<computeEstimationAccuracy(issues, At(20103, 1))>>)
    /\ UNCHANGED <<simulation, issues>>

ProfilerNext == Aggregate

Profiler == ProfilerInit /\ [][ProfilerNext]_vars

(***************************************************************************)
(* Forecast requests at the boundary: computeBaseline and runSimulation    *)
(* called with a remaining workload or a sample count of either sign.  A   *)
(* call is a whole handler invocation, or a whole runSimulation run from   *)
(* the call to the resolution of its promise.                              *)
(***************************************************************************)
\* an array element read past the end of the array
Undefined == [undefined |-> TRUE]

BoundaryRemainings == [total_points : {-1, 0, 1}, issue_count : {-2, 0, 2}]

BoundaryArgs ==
    [remainingWork : {-1, 0, 1}, samples : {-1, 0, MaxSamples},
     batchSize : {DefaultBatchSize}, seed : {Absent}, useIssueCount : {FALSE}]

\* lines 99-148 when samples <= 0: runBatch ran once and no trial with it,
\* completionWeeks is empty and every index read is undefined
EmptyResult(values, n) ==
    [success         |-> TRUE,
     p50             |-> Undefined,
     p80             |-> Undefined,
     p95             |-> Undefined,
     mean            |-> IF n = 0 THEN NaN ELSE Finite(0, 1),
     min             |-> Undefined,
     max             |-> Undefined,
     distribution    |-> <<>>,
     simulationCount |-> n,
     throughputStats |-> [mean  |-> <<SumSeq(values), Len(values)>>,
                          min   |-> MinOf(Range(values)),
                          max   |-> MaxOf(Range(values)),
                          weeks |-> Len(values)]]

\* runSimulation from call to resolution: the resolved value without its
\* clock reading, the trials run and the rng() calls made
runSimulation(throughputData, args) ==
    LET values == SimValues(throughputData, args.useIssueCount)
        s == RunToEnd(values, args,
                      [rng |-> createRng(hashCode(SimSeed(args.seed))),
                       completionWeeks |-> <<>>, draws |-> 0])
    IN  IF Len(values) = 0
        THEN [response |-> SimFailure, trials |-> 0, draws |-> 0]
        ELSE IF args.samples <= 0
        THEN [response |-> EmptyResult(values, args.samples), trials |-> 0, draws |-> 0]
        ELSE [response |-> Core(SimResult(values, args.samples,
                                          SortAsc(s.completionWeeks), 0)),
              trials   |-> Len(s.completionWeeks),
              draws    |-> s.draws]

BoundaryCache ==
    [baseline   |-> [remaining \in BoundaryRemainings |->
                        IF Len(throughput) = 0 THEN EmptyRun
                        ELSE BaselineTrials(throughput, snapshotId,
                                            WorkToComplete(remaining),
                                            UseIssueCount(remaining))],
     simulation |-> [args \in BoundaryArgs |-> runSimulation(throughput, args)]]

BoundaryInit ==
    /\ tier = "boundary"
    /\ snapshotId = Absent
    /\ throughput \in Throughputs
    /\ samples = HandlerSamples
    /\ useIssueCount = FALSE
    /\ trialCache = BoundaryCache
    /\ calls = [c \in CallIds |-> NoCall]
    /\ runs = [k \in RunIds |-> IdleRun]
    /\ rng = [k \in RunIds |-> <<0, 0>>]
    /\ hook = [isRunning |-> FALSE, progress |-> Null, result |-> Null, error |-> Null]
    /\ abortRef = FALSE
    /\ issues = Null
    /\ clock = Null
    /\ weekly = Null
    /\ estimationAccuracy = Null
    /\ confidence = Null
    /\ NoClient

NextCall(c) ==
    /\ tier = "boundary"
    /\ calls[c] = NoCall
    /\ \A d \in CallIds : d < c => calls[d] # NoCall

RequestBaseline(c) ==
    /\ NextCall(c)
    /\ \E remaining \in BoundaryRemainings, startTime \in Times, now \in Times :
          /\ startTime <= now
          /\ RecordCall(c, "baseline", BaselinePayload(remaining),
                        computeBaselineHandler(BaselinePayload(remaining),
                                               trialCache.baseline[remaining],
                                               startTime, now))
    /\ UNCHANGED <<snapshot, aggregate, client, runs, rng, hook, abortRef>>

RequestSimulation(c) ==
    /\ NextCall(c)
    /\ \E args \in BoundaryArgs :
          RecordCall(c, "simulation", args, trialCache.simulation[args])
    /\ UNCHANGED <<snapshot, aggregate, client, runs, rng, hook, abortRef>>

BoundaryNext ==
    \/ \E c \in CallIds : RequestBaseline(c)
    \/ \E c \in CallIds : RequestSimulation(c)

Boundary == BoundaryInit /\ [][BoundaryNext]_vars

(***************************************************************************)
(* fetchAllIssues.  The do-while loop requests one page per turn; what the *)
(* tracker answers is not in the function's hands, so every answer is      *)
(* possible at every turn.  Of the collected items only their number       *)
(* matters to the loop; allIssues is allIssues.length.  A page token is an *)
(* opaque string: <<1>> or <<2>>, <<>> when the response carries none.     *)
(***************************************************************************)
\* line 230
maxResults == 100
\* line 279: the safety limit on the items collected
SafetyLimit == 5000

PageTokens == { <<1>>, <<2>> }

\* response.ok with data.issues of the given length and data.nextPageToken;
\* a response that is not ok; a request whose promise rejects
Responses ==
    [ok : {TRUE}, issues : {0, 1, maxResults}, nextPageToken : {Absent} \cup PageTokens]
    \cup { [ok |-> FALSE, issues |-> 0, nextPageToken |-> Absent] }

\* while (nextPageToken && allIssues.length < 5000)
LoopsAgain(response, collected) ==
    response.nextPageToken # Absent /\ collected < SafetyLimit

FetcherInit ==
    /\ tier = "fetcher"
    /\ snapshotId = Absent
    /\ throughput = <<>>
    /\ samples = 0
    /\ useIssueCount = FALSE
    /\ trialCache = Null
    /\ calls = [c \in CallIds |-> NoCall]
    /\ runs = [k \in RunIds |-> IdleRun]
    /\ rng = [k \in RunIds |-> <<0, 0>>]
    /\ hook = [isRunning |-> FALSE, progress |-> Null, result |-> Null, error |-> Null]
    /\ abortRef = FALSE
    /\ issues = Null /\ clock = Null /\ weekly = Null
    /\ estimationAccuracy = Null /\ confidence = Null
    /\ app = Null /\ reports = Null
    /\ fetch = [status |-> "fetching", allIssues |-> 0, nextPageToken |-> Absent,
                sent |-> Absent]

\* one turn of the loop, lines 233-279: the request carries the token of the
\* last response; a response that is not ok throws
RequestPage ==
    /\ tier = "fetcher"
    /\ fetch.status = "fetching"
    /\ \E response \in Responses :
          fetch' =
              IF ~response.ok
              THEN [fetch EXCEPT !.status = "thrown", !.sent = fetch.nextPageToken]
              ELSE [status        |-> IF LoopsAgain(response, fetch.allIssues + response.issues)
                                      THEN "fetching" ELSE "returned",
                    allIssues     |-> fetch.allIssues + response.issues,
                    nextPageToken |-> response.nextPageToken,
                    sent          |-> fetch.nextPageToken]
    /\ UNCHANGED <<snapshot, aggregate, calls, runs, rng, hook, abortRef, app, reports>>

FetcherNext == RequestPage

\* the tracker answers every request
Fetcher == FetcherInit /\ [][FetcherNext]_vars /\ WF_vars(RequestPage)

(***************************************************************************)
(* App, the component of frontend/index.jsx.  app holds its useState       *)
(* cells and, in at and fetchResult, where the one running call of         *)
(* handleFetchBaseline stands and what its first invocation returned.  A   *)
(* cell that holds null is <<>>, a string m is <<m>>.  What the two        *)
(* backend invocations settle with is not in the component's hands.  The   *)
(* scenario editor is a stub that never calls onDeltasChange, so deltas    *)
(* stays [] and the button bound to handleComputeScenario stays disabled   *)
(* (line 343): that handler is never called from this component.           *)
(***************************************************************************)
ScopeTypes == {"project", "epic", "jql"}

Messages == {"Jira API error: 400 Bad Request", "No historical throughput data available"}

\* what invoke("fetchAndAggregate") and invoke("computeBaseline") resolve
\* with when the resolver reports success
FetchResults == [success : {TRUE}, snapshotId : {1, 2}, issueCount : {0, 1}]

BaselineResults == [success : {TRUE}, p50 : {1, 2}, p80 : {2, 3}]

\* an invocation settles: it resolves with a success value, resolves with
\* a tagged failure, or rejects
Settlements(values) ==
    [by : {"resolve"}, value : values]
    \cup [by : {"resolve"}, value : [success : {FALSE}, error : Messages]]
    \cup [by : {"reject"}, value : [message : {"Invocation failed"}]]

\* lines 50-52 and 63-65: the error the try block raises on a settlement,
\* <<>> when it raises none
Raised(settlement) ==
    IF settlement.by = "reject" THEN <<settlement.value.message>>
    ELSE IF ~settlement.value.success THEN <<settlement.value.error>>
    ELSE <<>>

\* a catch block that forgets setStep("scope-picker")
CaughtWhileLoading(a, err) ==
    [a EXCEPT !.error = err, !.loading = FALSE, !.at = "idle", !.fetchResult = Null]

\* lines 80-85
Caught(a, err) ==
    [a EXCEPT !.error = err, !.loading = FALSE, !.step = "scope-picker",
              !.at = "idle", !.fetchResult = Null]

\* lines 67-76
Stored(a, baselineResult) ==
    [a EXCEPT !.percent = 100,
              !.baselineResult = [success   |-> baselineResult.success,
                                  p50       |-> baselineResult.p50,
                                  p80       |-> baselineResult.p80,
                                  fetchData |-> a.fetchResult],
              !.loading = FALSE, !.step = "baseline",
              !.at = "idle", !.fetchResult = Null]

FlowInit ==
    /\ tier = "flow"
    /\ snapshotId = Absent
    /\ throughput = <<>>
    /\ samples = 0
    /\ useIssueCount = FALSE
    /\ trialCache = Null
    /\ calls = [c \in CallIds |-> NoCall]
    /\ runs = [k \in RunIds |-> IdleRun]
    /\ rng = [k \in RunIds |-> <<0, 0>>]
    /\ hook = [isRunning |-> FALSE, progress |-> Null, result |-> Null, error |-> Null]
    /\ abortRef = FALSE
    /\ issues = Null /\ clock = Null /\ weekly = Null
    /\ estimationAccuracy = Null /\ confidence = Null
    /\ fetch = Null /\ reports = Null
    /\ app = [step |-> "scope-picker", loading |-> FALSE, percent |-> 0, error |-> <<>>,
              scopeConfig |-> Null, baselineResult |-> Null, scenarioResult |-> Null,
              deltas |-> <<>>, at |-> "idle", fetchResult |-> Null]

\* ScopePicker's handleSubmit with its field filled in, lines 179-202, and
\* handleFetchBaseline up to its first await, lines 37-47
SubmitScope ==
    /\ tier = "flow"
    /\ app.step = "scope-picker"
    /\ \E scopeType \in ScopeTypes :
          app' = [app EXCEPT !.loading = TRUE, !.error = <<>>, !.step = "loading",
                             !.percent = 10, !.scopeConfig = [scopeType |-> scopeType],
                             !.at = "fetchAndAggregate"]
    /\ UNCHANGED <<snapshot, aggregate, calls, runs, rng, hook, abortRef, fetch, reports>>

\* the first invocation settles: lines 47-54, or the catch block
SettleFetchAndAggregate ==
    /\ tier = "flow"
    /\ app.at = "fetchAndAggregate"
    /\ \E settlement \in Settlements(FetchResults) :
          app' = IF Raised(settlement) # <<>>
                 THEN Caught(app, Raised(settlement))
                 ELSE [app EXCEPT !.percent = 60, !.at = "computeBaseline",
                                  !.fetchResult = settlement.value]
    /\ UNCHANGED <<snapshot, aggregate, calls, runs, rng, hook, abortRef, fetch, reports>>

\* the second invocation settles: lines 57-79, or the catch block
SettleComputeBaseline ==
    /\ tier = "flow"
    /\ app.at = "computeBaseline"
    /\ \E settlement \in Settlements(BaselineResults) :
          app' = IF Raised(settlement) # <<>>
                 THEN Caught(app, Raised(settlement))
                 ELSE Stored(app, settlement.value)
    /\ UNCHANGED <<snapshot, aggregate, calls, runs, rng, hook, abortRef, fetch, reports>>

\* line 144
CreateScenario ==
    /\ tier = "flow"
    /\ app.step = "baseline"
    /\ app' = [app EXCEPT !.step = "scenario"]
    /\ UNCHANGED <<snapshot, aggregate, calls, runs, rng, hook, abortRef, fetch, reports>>

\* lines 145-148
ChangeScope ==
    /\ tier = "flow"
    /\ app.step = "baseline"
    /\ app' = [app EXCEPT !.step = "scope-picker", !.baselineResult = Null]
    /\ UNCHANGED <<snapshot, aggregate, calls, runs, rng, hook, abortRef, fetch, reports>>

\* line 161
BackToBaseline ==
    /\ tier = "flow"
    /\ app.step = "scenario"
    /\ app' = [app EXCEPT !.step = "baseline"]
    /\ UNCHANGED <<snapshot, aggregate, calls, runs, rng, hook, abortRef, fetch, reports>>

FlowNext ==
    \/ SubmitScope
    \/ SettleFetchAndAggregate
    \/ SettleComputeBaseline
    \/ CreateScenario
    \/ ChangeScope
    \/ BackToBaseline

\* the backend invocations settle
Flow ==
    /\ FlowInit
    /\ [][FlowNext]_vars
    /\ WF_vars(SettleFetchAndAggregate)
    /\ WF_vars(SettleComputeBaseline)

(***************************************************************************)
(* computeScenario's handling of the deltas, and handleComputeScenario,    *)
(* the function of App that calls it.  issues is the fetched set: of an    *)
(* item its key, statusCategory and storyPoints, 0 for an item without an  *)
(* estimate.  A delta is its delta_type, its entity_key and the number its *)
(* delta_value carries (estimate or story_points).  A throughput value is  *)
(* tagged with what it is: the array of weeks a caller of the resolver     *)
(* passes, or the object computeThroughput returns.                        *)
(***************************************************************************)
BaselineKeys == <<"A", "B">>

ScenarioIssues ==
    { list \in SeqsUpTo([key : {"A", "B"}, statusCategory : {"To Do", "In Progress", "Done"},
                         storyPoints : {0, 2}], 2) :
         \A i \in DOMAIN list : list[i].key = BaselineKeys[i] }

Deltas ==
    [delta_type : {"scope_remove"}, entity_key : {"A", "B"}, points : {0}]
    \cup [delta_type : {"scope_add"}, entity_key : {"C"}, points : {0, 3}]
    \cup [delta_type : {"estimate_override"}, entity_key : {"A", "C"}, points : {5}]

\* lists of deltas; an item is added once
DeltaLists ==
    { ds \in SeqsUpTo(Deltas, 2) :
         \A i, j \in DOMAIN ds :
            ds[i].delta_type = "scope_add" /\ ds[j].delta_type = "scope_add" => i = j }

OfType(deltas, type) == SelectSeq(deltas, LAMBDA d : d.delta_type = type)

\* issues.find(i => i.key === key): the index of the first, 0 for undefined
Find(list, key) ==
    IF \E i \in DOMAIN list : list[i].key = key
    THEN CHOOSE i \in DOMAIN list :
            list[i].key = key /\ \A j \in 1..(i - 1) : list[j].key # key
    ELSE 0

RECURSIVE ScopeRemoved(_, _)
\* part_006 lines 287-293
ScopeRemoved(list, removes) ==
    IF removes = <<>> THEN list
    ELSE LET k == Find(list, Head(removes).entity_key)
         IN  ScopeRemoved(IF k = 0 THEN list ELSE [list EXCEPT ![k].inScope = FALSE],
                          Tail(removes))

\* part_006 lines 297-308
ScopeAdded(list, adds) ==
    list \o [i \in 1..Len(adds) |->
                [key |-> adds[i].entity_key, storyPoints |-> adds[i].points,
                 statusCategory |-> "To Do", inScope |-> TRUE]]

RECURSIVE Overridden(_, _)
\* part_006 lines 312-318
Overridden(list, overrides) ==
    IF overrides = <<>> THEN list
    ELSE LET k == Find(list, Head(overrides).entity_key)
         IN  Overridden(IF k = 0 THEN list
                        ELSE [list EXCEPT ![k].storyPoints = Head(overrides).points],
                        Tail(overrides))

\* part_006 lines 277-318: the issues after the deltas
ApplyDeltas(baselineIssues, deltas) ==
    LET cloned == [i \in 1..Len(baselineIssues) |->
                      [key |-> baselineIssues[i].key,
                       storyPoints |-> baselineIssues[i].storyPoints,
                       statusCategory |-> baselineIssues[i].statusCategory,
                       inScope |-> TRUE]]
    IN  Overridden(ScopeAdded(ScopeRemoved(cloned, OfType(deltas, "scope_remove")),
                              OfType(deltas, "scope_add")),
                   OfType(deltas, "estimate_override"))

RECURSIVE SumPoints(_)
SumPoints(list) == IF list = <<>> THEN 0 ELSE Head(list).storyPoints + SumPoints(Tail(list))

\* part_006 lines 322-329
totalRemaining(list) ==
    LET remainingIssues ==
            SelectSeq(list, LAMBDA i : i.inScope /\ i.statusCategory \in {"To Do", "In Progress"})
    IN  [issue_count |-> Len(remainingIssues), total_points |-> SumPoints(remainingIssues)]

\* fetchAndAggregate.js lines 125-131 and 163-168, without unestimatedCount
\* and the sorted items
computeRemaining(fetched) ==
    LET remainingIssues ==
            SelectSeq(fetched, LAMBDA i : i.statusCategory \in {"To Do", "In Progress"})
    IN  [issueCount |-> Len(remainingIssues), totalPoints |-> SumPoints(remainingIssues)]

\* the computeScenario resolver on a payload.  baselineData.issues || [] is
\* <<>> when the payload has no issues.  A throughput that is not an array
\* has no length and no map: the first draw reads a property of undefined,
\* and with no work left generateBurnDown calls throughput.map
ScenarioOutcome(payload, startTime, now) ==
    LET total == totalRemaining(ApplyDeltas(payload.baselineData.issues, payload.deltas))
        inner == [snapshotId |-> payload.snapshotId,
                  throughput |-> payload.baselineData.throughput.weeks,
                  remaining  |-> total.total_points]
    IN  IF ~payload.baselineData.throughput.array
        THEN [success |-> FALSE,
              error   |-> IF total.total_points > 0
                          THEN "Cannot read properties of undefined"
                          ELSE "throughput.map is not a function"]
        ELSE computeScenarioHandler(
                 inner,
                 IF ScenarioThrows(inner.throughput, inner.remaining) THEN EmptyRun
                 ELSE ScenarioTrials(inner.throughput, inner.snapshotId, inner.remaining),
                 startTime, now).response

\* index.jsx lines 97-106: fetchData has no issues, its throughput is the
\* object computeThroughput returned
ScenarioPayload(baselineResult, deltas) ==
    [snapshotId   |-> baselineResult.snapshotId,
     baselineData |-> [issues     |-> <<>>,
                       throughput |-> baselineResult.fetchData.throughput,
                       p50        |-> baselineResult.p50,
                       p80        |-> baselineResult.p80],
     deltas       |-> deltas]

ScenarioInit ==
    /\ tier = "scenario"
    /\ snapshotId = SeedDefault
    /\ throughput \in { t \in Throughputs : Len(t) = 1 /\ t[1].points_completed > 0 }
    /\ samples = 0
    /\ useIssueCount = FALSE
    /\ trialCache = Null
    /\ calls = [c \in CallIds |-> NoCall]
    /\ runs = [k \in RunIds |-> IdleRun]
    /\ rng = [k \in RunIds |-> <<0, 0>>]
    /\ hook = [isRunning |-> FALSE, progress |-> Null, result |-> Null, error |-> Null]
    /\ abortRef = FALSE
    /\ issues \in ScenarioIssues
    /\ clock = Null /\ weekly = Null
    /\ estimationAccuracy = Null /\ confidence = Null
    /\ fetch = Null /\ reports = Null
    /\ \E deltas \in DeltaLists :
          app = [step |-> "scenario", loading |-> FALSE, percent |-> 100, error |-> <<>>,
                 scopeConfig |-> [scopeType |-> "project"],
                 baselineResult |->
                     [success |-> TRUE, snapshotId |-> snapshotId, p50 |-> 1, p80 |-> 2,
                      fetchData |-> [success    |-> TRUE,
                                     snapshotId |-> snapshotId,
                                     throughput |-> [array |-> FALSE, weeks |-> throughput],
                                     remaining  |-> computeRemaining(issues)]],
                 scenarioResult |-> Null, deltas |-> deltas, at |-> "idle",
                 fetchResult |-> Null]

\* the resolver called with the fetched issues, the weeks of throughput and
\* the deltas under edit
InvokeComputeScenario ==
    /\ tier = "scenario"
    /\ calls[1] = NoCall
    /\ \E now \in Times :
          LET payload == [snapshotId   |-> snapshotId,
                          baselineData |-> [issues     |-> issues,
                                            throughput |-> [array |-> TRUE,
                                                            weeks |-> throughput],
                                            p50 |-> 1, p80 |-> 2],
                          deltas       |-> app.deltas]
          IN  calls' = [calls EXCEPT ![1] =
                           [kind |-> "scenario", payload |-> payload,
                            response |-> ScenarioOutcome(payload, 0, now)]]
    /\ UNCHANGED <<snapshot, aggregate, client, runs, rng, hook, abortRef>>

\* handleComputeScenario up to its await, index.jsx lines 91-106
HandleComputeScenario ==
    /\ tier = "scenario"
    /\ app.step = "scenario"
    /\ app.at = "idle"
    /\ app' = [app EXCEPT !.loading = TRUE, !.error = <<>>, !.percent = 50,
                          !.at = "computeScenario"]
    /\ UNCHANGED <<snapshot, aggregate, calls, runs, rng, hook, abortRef, fetch, reports>>

\* the invocation settles with what the resolver returns, lines 108-120
SettleComputeScenario ==
    /\ tier = "scenario"
    /\ app.at = "computeScenario"
    /\ \E now \in Times :
          LET scenarioResult ==
                  ScenarioOutcome(ScenarioPayload(app.baselineResult, app.deltas), 0, now)
          IN  app' = IF ~scenarioResult.success
                     THEN [app EXCEPT !.error = <<scenarioResult.error>>,
                                      !.loading = FALSE, !.at = "settled"]
                     ELSE [app EXCEPT !.scenarioResult = scenarioResult, !.percent = 100,
                                      !.loading = FALSE, !.step = "scenario",
                                      !.at = "settled"]
    /\ UNCHANGED <<snapshot, aggregate, calls, runs, rng, hook, abortRef, fetch, reports>>

ScenarioNext ==
    \/ InvokeComputeScenario
    \/ HandleComputeScenario
    \/ SettleComputeScenario

Scenario == ScenarioInit /\ [][ScenarioNext]_vars

(***************************************************************************)
(* The resolver functions of index.js, each around its handler.  What a    *)
(* block of code comes to is an outcome: a value returned or an error      *)
(* thrown.  req.payload is <<>> when the request carries none, <<p>> when  *)
(* it carries p; a property that may be missing is held the same way.      *)
(* calls[1] is the request made and what the resolver function came to.    *)
(***************************************************************************)
Returned(value) == [thrown |-> FALSE, value |-> value]
Thrown(message) == [thrown |-> TRUE, value |-> [message |-> message]]

\* a try block that comes to its outcome without a catch around it
Uncaught(outcome) == outcome

\* try { ... } catch (error) { return { success: false, error: error.message, ... } }
TryCatch(outcome) ==
    IF outcome.thrown
    THEN Returned([success |-> FALSE, error |-> outcome.value.message])
    ELSE outcome

\* fetchAndAggregate.js lines 210-225
buildJQL(scopeType, scopeParams) ==
    IF scopeType \notin {<<"project">>, <<"epic">>, <<"jql">>}
    THEN Thrown("Unknown scope type")
    ELSE IF scopeParams = <<>>
    THEN Thrown("Cannot read properties of undefined")
    ELSE Returned(scopeParams[1].text)

ScopeRequests ==
    {<<>>} \cup { <<[scopeType |-> t, scopeParams |-> p]>> :
                     t \in {<<>>, <<"project">>, <<"epic">>, <<"jql">>, <<"board">>},
                     p \in {<<>>, <<[text |-> "PROJ"]>>} }

\* what the tracker does with the search: it answers with the items, it
\* answers with a status that is not ok, or the request fails
Trackers == {"ok", "not ok", "rejected"}

\* fetchAndAggregate.js lines 18-62, the try block of the handler
fetchAndAggregateBody(payload, tracker, now) ==
    IF payload = <<>> THEN Thrown("Cannot destructure property 'scopeType'")
    ELSE LET jql == buildJQL(payload[1].scopeType, payload[1].scopeParams)
         IN  IF jql.thrown THEN jql
             ELSE IF tracker = "not ok" THEN Thrown("Jira API error")
             ELSE IF tracker = "rejected" THEN Thrown("fetch failed")
             ELSE Returned([success            |-> TRUE,
                            throughput         |-> computeThroughput(issues, now),
                            remaining          |-> computeRemaining(issues),
                            estimationAccuracy |-> computeEstimationAccuracy(issues, now),
                            confidence         |->
                                computeConfidence(
                                    <<computeThroughput(issues, now).weeklyData>>,
                                    <<computeEstimationAccuracy(issues, now)>>),
                            issueCount         |-> Len(issues)])

\* computeBaseline.js lines 16-143, the try block of the handler; what it
\* does with a payload it can read is computeBaselineHandler
computeBaselineBody(payload, startTime, now) ==
    IF payload = <<>> THEN Thrown("Cannot destructure property 'snapshotId'")
    ELSE Returned(computeBaselineHandler(
                      payload[1],
                      trialCache.baseline[<<WorkToComplete(payload[1].remaining),
                                            UseIssueCount(payload[1].remaining)>>],
                      startTime, now).response)

\* computeScenario.js lines 17-211, the try block of the handler, on a
\* payload that is missing, one without deltas, and one it can read
computeScenarioBody(payload, startTime, now) ==
    IF payload = <<>> THEN Thrown("Cannot destructure property 'snapshotId'")
    ELSE IF ~payload[1].deltas THEN Thrown("Cannot read properties of undefined")
    ELSE Returned(computeScenarioHandler(
                      payload[1].baseline,
                      trialCache.scenario[payload[1].baseline.remaining],
                      startTime, now).response)

ResolverIssues == { <<>>, SizeGroup(1, <<4>>), SizeGroup(2, <<2, 2, 2>>) }

ResolverInit ==
    /\ tier = "resolver"
    /\ snapshotId \in Seeds
    /\ throughput \in Throughputs
    /\ samples = HandlerSamples
    /\ useIssueCount = FALSE
    /\ trialCache = BackendCache
    /\ calls = [c \in CallIds |-> NoCall]
    /\ runs = [k \in RunIds |-> IdleRun]
    /\ rng = [k \in RunIds |-> <<0, 0>>]
    /\ hook = [isRunning |-> FALSE, progress |-> Null, result |-> Null, error |-> Null]
    /\ abortRef = FALSE
    /\ issues \in ResolverIssues
    /\ clock = Null /\ weekly = Null
    /\ estimationAccuracy = Null /\ confidence = Null
    /\ NoClient

Requested(kind, payload, outcome) ==
    /\ tier = "resolver"
    /\ calls[1] = NoCall
    /\ calls' = [calls EXCEPT ![1] = [kind |-> kind, payload |-> payload, outcome |-> outcome]]
    /\ UNCHANGED <<snapshot, aggregate, client, runs, rng, hook, abortRef>>

\* index.js lines 79-98 around the handler of fetchAndAggregate.js
ResolveFetchAndAggregate ==
    \E payload \in ScopeRequests, tracker \in Trackers :
        Requested("fetchAndAggregate", payload,
                  TryCatch(TryCatch(fetchAndAggregateBody(payload, tracker, At(20103, 1)))))

\* index.js lines 103-121 around the handler of computeBaseline.js
ResolveComputeBaseline ==
    \E payload \in {<<>>} \cup { <<BaselinePayload(r)>> : r \in Remainings }, now \in Times :
        Requested("computeBaseline", payload,
                  TryCatch(TryCatch(computeBaselineBody(payload, 0, now))))

\* index.js lines 126-143 around the handler of computeScenario.js
ResolveComputeScenario ==
    \E payload \in {<<>>} \cup { <<[baseline |-> BaselinePayload(w), deltas |-> d]>> :
                                    w \in 0..MaxWork, d \in BOOLEAN },
       now \in Times :
        Requested("computeScenario", payload,
                  TryCatch(TryCatch(computeScenarioBody(payload, 0, now))))

ResolverNext ==
    \/ ResolveFetchAndAggregate
    \/ ResolveComputeBaseline
    \/ ResolveComputeScenario

Resolver == ResolverInit /\ [][ResolverNext]_vars

(***************************************************************************)
(* runSimulation called on its own, with an onProgress that keeps what it  *)
(* is passed.  runs[1] is the closure state of the call and rng[1] its     *)
(* generator; reports holds the last two objects passed to onProgress, the *)
(* latest last.  Sample counts are positive here.                          *)
(***************************************************************************)
\* the batch sizes a caller passes: none of them is refused
ReportedBatchSizes == {0, 1, 2, DefaultBatchSize}

\* lines 81-92: with currentSample = 0 progress is 0, estimatedTotal is
\* elapsed / 0 and remaining is not a finite number
Report(currentSample, total, elapsed) ==
    IF currentSample > 0
    THEN [ProgressReport(currentSample, total, elapsed) EXCEPT !.remaining = Finite(@, 1)]
    ELSE [current   |-> 0,
          total     |-> total,
          percent   |-> 0,
          elapsed   |-> elapsed,
          remaining |-> IF elapsed = 0 THEN NaN ELSE Infinity]

LastTwo(passed) == IF Len(passed) <= 2 THEN passed ELSE SubSeq(passed, Len(passed) - 1, Len(passed))

ReporterArgs ==
    [remainingWork : 0..MaxWork, batchSize : ReportedBatchSizes, samples : 1..MaxSamples,
     seed : {Absent}, useIssueCount : {FALSE}]

\* lines 63-80 and 99-148: what one call of runBatch leaves when it starts
\* at currentSample, and the value it resolves the promise with if it does
BatchFrom(values, args, currentSample) ==
    LET s == runBatch(values, args,
                      RunTrials(values, args.remainingWork,
                                [rng |-> createRng(hashCode(SimSeed(args.seed))),
                                 completionWeeks |-> <<>>, draws |-> 0],
                                currentSample))
    IN  [s      |-> s,
         result |-> IF Len(s.completionWeeks) < args.samples THEN Null
                    ELSE SimResult(values, args.samples, SortAsc(s.completionWeeks), 0)]

ReporterCache ==
    [args \in ReporterArgs |->
        [currentSample \in 0..args.samples |->
            IF Len(SimValues(throughput, FALSE)) = 0 THEN Null
            ELSE BatchFrom(SimValues(throughput, FALSE), args, currentSample)]]

ReporterInit ==
    /\ tier = "reporter"
    /\ snapshotId = Absent
    /\ throughput \in Throughputs
    /\ samples = 0
    /\ useIssueCount = FALSE
    /\ trialCache = ReporterCache
    /\ calls = [c \in CallIds |-> NoCall]
    /\ runs = [k \in RunIds |-> IdleRun]
    /\ rng = [k \in RunIds |-> <<0, 0>>]
    /\ hook = [isRunning |-> FALSE, progress |-> Null, result |-> Null, error |-> Null]
    /\ abortRef = FALSE
    /\ issues = Null /\ clock = Null /\ weekly = Null
    /\ estimationAccuracy = Null /\ confidence = Null
    /\ app = Null /\ fetch = Null
    /\ reports = <<>>

\* lines 63-149: one call of runBatch, batch being what it leaves
BatchDone(args, batch, elapsed) ==
    /\ rng' = [rng EXCEPT ![1] = batch.s.rng]
    /\ reports' = LastTwo(Append(reports,
                                 Report(Len(batch.s.completionWeeks), args.samples, elapsed)))
    /\ runs' = [runs EXCEPT ![1] =
                   IF batch.result = Null
                   THEN [IdleRun EXCEPT !.status = "running", !.args = args,
                                        !.currentSample = Len(batch.s.completionWeeks),
                                        !.completionWeeks = batch.s.completionWeeks,
                                        !.draws = batch.s.draws, !.elapsed = elapsed]
                   ELSE [IdleRun EXCEPT !.status = "resolved", !.args = args,
                                        !.currentSample = Len(batch.s.completionWeeks),
                                        !.completionWeeks = batch.s.completionWeeks,
                                        !.draws = batch.s.draws, !.elapsed = elapsed,
                                        !.result = [batch.result EXCEPT
                                                       !.executionTime = elapsed]]]

\* runSimulation up to the end of its first, synchronous runBatch
CallRunSimulation ==
    /\ tier = "reporter"
    /\ runs[1].status = "idle"
    /\ \E args \in ReporterArgs, elapsed \in Times :
          IF Len(SimValues(throughput, FALSE)) = 0
          THEN /\ runs' = [runs EXCEPT ![1] =
                              [IdleRun EXCEPT !.status = "resolved", !.args = args,
                                              !.result = SimFailure]]
               /\ UNCHANGED <<rng, reports>>
          ELSE BatchDone(args, trialCache[args][0], elapsed)
    /\ UNCHANGED <<snapshot, aggregate, calls, hook, abortRef, app, fetch>>

\* the timer set at line 96 fires; a firing that measures the same elapsed
\* time as the one before and adds no trial leaves the state as it is
TimerBatch ==
    /\ tier = "reporter"
    /\ runs[1].status = "running"
    /\ \E elapsed \in runs[1].elapsed..MaxNow :
          BatchDone(runs[1].args, trialCache[runs[1].args][runs[1].currentSample], elapsed)
    /\ UNCHANGED <<snapshot, aggregate, calls, hook, abortRef, app, fetch>>

ReporterNext == CallRunSimulation \/ TimerBatch

\* the call is made and every timer it sets fires
Reporter ==
    ReporterInit /\ [][ReporterNext]_vars
        /\ WF_vars(CallRunSimulation) /\ WF_vars(TimerBatch)

(***************************************************************************)
(* Properties.  Vocabulary: a call is a resolver invocation recorded in    *)
(* calls, a run is a runSimulation call recorded in runs.                  *)
(***************************************************************************)
Called(c) == calls[c] # NoCall

Succeeded(c) == Called(c) /\ calls[c].response.success

\* the call ran the trial loop and returned a forecast with its histogram
Simulated(c) == Succeeded(c) /\ calls[c].trials > 0

Baseline(c) == Called(c) /\ calls[c].kind = "baseline"

\* the promise of run k has resolved
Done(k) == runs[k].status \in {"resolved", "returned"}

Forecast(k) == Done(k) /\ runs[k].result.success

\* fields read from the clock: runId, computedAt, executionTime
ClockFields == {"runId", "computedAt", "executionTime"}

Stable(response) == [f \in DOMAIN response \ ClockFields |-> response[f]]

SameArgsButWork(j, k) ==
    [runs[j].args EXCEPT !.remainingWork = 0] = [runs[k].args EXCEPT !.remainingWork = 0]

SameArgsButBatch(j, k) ==
    [runs[j].args EXCEPT !.batchSize = 0] = [runs[k].args EXCEPT !.batchSize = 0]

\* the throughput values and the workload a call's trials ran on
CallValues(c) ==
    IF calls[c].kind = "baseline"
    THEN ThroughputValues(calls[c].payload.throughput,
                          UseIssueCount(calls[c].payload.remaining))
    ELSE ThroughputValues(calls[c].payload.throughput, FALSE)

CallWork(c) ==
    IF calls[c].kind = "baseline" THEN WorkToComplete(calls[c].payload.remaining)
    ELSE calls[c].payload.remaining

Counts(distribution) == [i \in DOMAIN distribution |-> distribution[i].count]

WeeksTimesCounts(distribution) ==
    [i \in DOMAIN distribution |-> distribution[i].weeks * distribution[i].count]

\* the counts add up to n, and every probability is count / n with n > 0,
\* so that the probabilities add up to n / n = 1
Conserves(distribution, n) ==
    /\ n > 0
    /\ SumSeq(Counts(distribution)) = n
    /\ \A i \in DOMAIN distribution :
          distribution[i].probability = <<distribution[i].count, n>>

PercentilesAre(result, v) ==
    /\ {"p50", "p80", "p95"} \subseteq DOMAIN result
    /\ result.p50 = v /\ result.p80 = v /\ result.p95 = v

NotAfter(a, b) == a.p50 <= b.p50 /\ a.p80 <= b.p80 /\ a.p95 <= b.p95

(***************************************************************************)
(* C1  Determinism.                                                        *)
(***************************************************************************)
\* C1 as stated: two computeBaseline calls with the same payload return
\* responses identical in every field, and two runSimulation calls with the
\* same arguments resolve with results identical in every field.
C1_IdenticalInEveryField ==
    /\ \A c, d \in CallIds :
          (Baseline(c) /\ Baseline(d) /\ calls[c].payload = calls[d].payload)
              => calls[c].response = calls[d].response
    /\ \A j, k \in RunIds :
          (Done(j) /\ Done(k) /\ runs[j].args = runs[k].args)
              => runs[j].result = runs[k].result

\* C1 amended: two computeBaseline calls with the same payload, and two
\* runSimulation calls with the same arguments, agree in every field that is
\* not read from the clock (runId, computedAt, executionTime): percentiles,
\* histogram buckets and their order, and the rest.
C1_IdenticalButClock ==
    /\ \A c, d \in CallIds :
          (Baseline(c) /\ Baseline(d) /\ calls[c].payload = calls[d].payload)
              => Stable(calls[c].response) = Stable(calls[d].response)
    /\ \A j, k \in RunIds :
          (Done(j) /\ Done(k) /\ runs[j].args = runs[k].args)
              => Stable(runs[j].result) = Stable(runs[k].result)

\* two simulated calls with one payload whose responses differ (in the clock)
C1_TwoCallsDifferInClock ==
    \E c, d \in CallIds :
        /\ Simulated(c) /\ Simulated(d) /\ Baseline(c) /\ Baseline(d)
        /\ calls[c].payload = calls[d].payload
        /\ Len(calls[c].response.distribution) > 1
        /\ calls[c].response # calls[d].response

(***************************************************************************)
(* C2  Percentile order.                                                   *)
(***************************************************************************)
\* C2: every response and every result that carries percentiles has
\* p50 <= p80 <= p95.
C2_PercentilesOrdered ==
    /\ \A c \in CallIds :
          Succeeded(c) => /\ calls[c].response.p50 <= calls[c].response.p80
                          /\ calls[c].response.p80 <= calls[c].response.p95
    /\ \A k \in RunIds :
          Forecast(k) => /\ runs[k].result.p50 <= runs[k].result.p80
                         /\ runs[k].result.p80 <= runs[k].result.p95

\* a forecast whose trials did not all take the same number of weeks
C2_SpreadForecast ==
    \E c \in CallIds :
        Simulated(c) /\ calls[c].response.p50 < calls[c].response.p95

C4_EmptyThroughputFails ==
    /\ \A c \in CallIds :
          (Baseline(c) /\ calls[c].payload.throughput = <<>>)
              => /\ calls[c].response =
                        [success |-> FALSE,
                         error   |-> "No historical throughput data available"]
                 /\ calls[c].trials = 0
                 /\ calls[c].draws = 0
    /\ \A k \in RunIds :
          (Done(k) /\ throughput = <<>>)
              => /\ runs[k].result = SimFailure
                 /\ runs[k].completionWeeks = <<>>
                 /\ runs[k].draws = 0

\* computeBaseline called with no throughput, both with and without work left
C4_EmptyThroughputCalls ==
    \E c, d \in CallIds :
        /\ Baseline(c) /\ Baseline(d)
        /\ calls[c].payload.throughput = <<>>
        /\ WorkToComplete(calls[c].payload.remaining) = 0
        /\ WorkToComplete(calls[d].payload.remaining) = MaxWork

(***************************************************************************)
(* C5  Zero remaining work.                                                *)
(***************************************************************************)
\* C5 as stated: with remaining work 0 the simulator returns
\* p50 = p80 = p95 = 0 and calls rng() never, whatever the throughput.
C5_ZeroWorkAlwaysZero ==
    /\ \A c \in CallIds :
          (Baseline(c) /\ CallWork(c) = 0)
              => PercentilesAre(calls[c].response, 0) /\ calls[c].draws = 0
    /\ \A k \in RunIds :
          (Done(k) /\ runs[k].args.remainingWork = 0)
              => PercentilesAre(runs[k].result, 0) /\ runs[k].draws = 0

\* C5 amended: with remaining work 0 and a throughput that does not make the
\* call fail (non-empty for computeBaseline, at least one positive value for
\* runSimulation) the simulator returns p50 = p80 = p95 = 0 and never calls
\* rng(); otherwise it returns the no-throughput failure, also without a draw.
C5_ZeroWorkZeroWeeks ==
    /\ \A c \in CallIds :
          (Baseline(c) /\ CallWork(c) = 0)
              => /\ calls[c].draws = 0
                 /\ IF Len(calls[c].payload.throughput) > 0
                    THEN calls[c].response.success /\ PercentilesAre(calls[c].response, 0)
                    ELSE ~calls[c].response.success
    /\ \A k \in RunIds :
          (Done(k) /\ runs[k].args.remainingWork = 0)
              => /\ runs[k].draws = 0
                 /\ IF Len(SimValues(throughput, runs[k].args.useIssueCount)) > 0
                    THEN runs[k].result.success /\ PercentilesAre(runs[k].result, 0)
                    ELSE runs[k].result = SimFailure

\* a run with no work left whose trials all ran without a draw
C5_ZeroWorkRun ==
    \E k \in RunIds :
        /\ Forecast(k)
        /\ runs[k].args.remainingWork = 0
        /\ runs[k].completionWeeks = [i \in 1..runs[k].args.samples |-> 0]

(***************************************************************************)
(* C6  Week cap.                                                           *)
(***************************************************************************)
\* C6: every trial calls rng() once per week counted, so at most 104 times,
\* and its weeks lie in 0..104 (computeBaseline, computeScenario and
\* runSimulation); when every throughput value is 0 and work remains, every
\* trial reports exactly 104 and the call succeeds.
C6_TrialsCapped ==
    /\ \A c \in CallIds :
          Simulated(c) =>
              /\ \A i \in DOMAIN calls[c].response.distribution :
                    calls[c].response.distribution[i].weeks \in 0..maxWeeks
              /\ calls[c].draws = SumSeq(WeeksTimesCounts(calls[c].response.distribution))
    /\ \A c \in CallIds :
          (Called(c) /\ Len(calls[c].payload.throughput) > 0 /\ CallWork(c) > 0
                     /\ Range(CallValues(c)) = {0})
              => /\ Simulated(c)
                 /\ PercentilesAre(calls[c].response, maxWeeks)
                 /\ Counts(calls[c].response.distribution) = <<HandlerSamples>>
                 /\ calls[c].response.distribution[1].weeks = maxWeeks
    /\ \A k \in RunIds :
          /\ \A i \in DOMAIN runs[k].completionWeeks :
                runs[k].completionWeeks[i] \in 0..maxWeeks
          /\ runs[k].draws = SumSeq(runs[k].completionWeeks)

\* both handlers called on a throughput of zeros with work left
C6_NeverCompleting ==
    \E c, d \in CallIds :
        /\ Simulated(c) /\ calls[c].kind = "baseline"
        /\ Simulated(d) /\ calls[d].kind = "scenario"
        /\ calls[c].response.p50 = maxWeeks
        /\ calls[d].response.p50 = maxWeeks
        /\ calls[c].draws = maxWeeks * HandlerSamples

(***************************************************************************)
(* C7  Monotonicity in the remaining work.                                 *)
(***************************************************************************)
\* C7 as stated: of two runSimulation calls that differ in the remaining
\* work alone, the one with more work reports no smaller p50, p80 or p95.
C7_MonotoneInWork ==
    \A j, k \in RunIds :
        (Forecast(j) /\ Forecast(k) /\ SameArgsButWork(j, k)
                     /\ runs[j].args.remainingWork <= runs[k].args.remainingWork)
            => NotAfter(runs[j].result, runs[k].result)

(***************************************************************************)
(* C8  Batch size.                                                         *)
(***************************************************************************)
\* C8: two runSimulation calls that differ in the batch size alone resolve
\* with the same sorted trial weeks and the same result (but executionTime);
\* one of the batch sizes may cover all samples in a single batch.
C8_BatchSizeIrrelevant ==
    \A j, k \in RunIds :
        (Done(j) /\ Done(k) /\ SameArgsButBatch(j, k))
            => /\ runs[j].completionWeeks = runs[k].completionWeeks
               /\ Stable(runs[j].result) = Stable(runs[k].result)

\* the same forecast made in one batch and in several
C8_OneBatchAndSeveral ==
    \E j, k \in RunIds :
        /\ Forecast(j) /\ Forecast(k) /\ SameArgsButBatch(j, k)
        /\ runs[j].args.batchSize < runs[j].args.samples
        /\ runs[k].args.batchSize >= runs[k].args.samples
        /\ runs[j].result.p50 < runs[j].result.p95

(***************************************************************************)
(* C9  Abort.                                                              *)
(***************************************************************************)
\* C9 as stated: once abort() has been called between the batches of a run,
\* no later batch of that run (with the continuation of run() that follows
\* the last one) changes isRunning, progress, result or error, also when
\* run() is called again in between.
C9_AbortedRunSilent ==
    [][\A k \in RunIds : (runs[k].aborted /\ RunBatch(k)) => hook' = hook]_vars

(***************************************************************************)
(* C10  Interleaved runs.                                                  *)
(***************************************************************************)
\* C10: every runSimulation call, whatever other call its batches interleave
\* with, resolves with the result the same arguments give when run alone.
C10_AsWhenRunAlone ==
    \A k \in RunIds :
        Done(k) => Stable(runs[k].result) =
                       trialCache.solo[<<runs[k].args.remainingWork, runs[k].args.batchSize>>]

\* run 2 made all its batches between two batches of run 1
C10_Interleaved ==
    /\ runs[1].status = "running"
    /\ Forecast(2)
    /\ runs[2].args.batchSize < runs[2].args.samples
    /\ runs[2].args.remainingWork # runs[1].args.remainingWork
    /\ runs[2].result.p50 < runs[2].result.p95

(***************************************************************************)
(* Properties of the aggregator.                                           *)
(***************************************************************************)
Aggregated == tier = "aggregator" /\ weekly # Null

\* the items of the fetched set that computeThroughput counted
Participants == { i \in DOMAIN issues : Resolved(issues[i], clock) }

\* calendar order of two dates <<year, month, day>>
Earlier(a, b) ==
    \/ a[1] < b[1]
    \/ a[1] = b[1] /\ a[2] < b[2]
    \/ a[1] = b[1] /\ a[2] = b[2] /\ a[3] < b[3]

WeekStarts(weeks) == { weeks[i].weekStart : i \in DOMAIN weeks }

\* C11: the weekly series computeThroughput returns has exactly one sample
\* for each distinct week-start among the participating items, and the
\* samples ascend by week-start, in whatever order the items were given.
C11_OnePerWeekAscending ==
    Aggregated =>
        /\ WeekStarts(weekly.weeklyData) = { weekKey(issues[i]) : i \in Participants }
        /\ Len(weekly.weeklyData) = Cardinality(WeekStarts(weekly.weeklyData))
        /\ \A i \in 1..(Len(weekly.weeklyData) - 1) :
              Earlier(weekly.weeklyData[i].weekStart, weekly.weeklyData[i + 1].weekStart)

\* C11 witness: two weeks met latest first across a new year, one of them
\* holding two items
C11_WeeksMetLatestFirst ==
    /\ Aggregated
    /\ Len(weekly.weeklyData) = 2
    /\ weekly.weeklyData[1].weekStart[1] < weekly.weeklyData[2].weekStart[1]
    /\ \E i, j \in Participants :
          i < j /\ Earlier(weekKey(issues[j]), weekKey(issues[i]))
    /\ \E i \in DOMAIN weekly.weeklyData : weekly.weeklyData[i].issuesCompleted = 2

\* the values computeBaseline's trials draw from, given the aggregator's series
Population(useIssues) == ThroughputValues(throughputDataOf(weekly), useIssues)

\* C12: no weekly sample is zero-valued: the values the simulator resamples,
\* points per week or issues per week, are all strictly positive for the
\* series computeThroughput hands to computeBaseline.
C12_NoZeroSample ==
    Aggregated =>
        \A useIssues \in BOOLEAN :
            \A i \in DOMAIN Population(useIssues) : Population(useIssues)[i] > 0

\* an item that is Done and completed within [now - window, now]
InWindow(issue) ==
    /\ issue.statusCategory = "Done"
    /\ issue.resolved # Absent
    /\ issue.resolved[1] >= cutoffDate(clock)
    /\ issue.resolved[1] <= clock

\* C13: an item contributes to the weekly series only if it is Done and its
\* completion timestamp lies within [now - lookback window, now]; items with
\* no completion timestamp, completed before the cutoff, or completed after
\* now are left out, so the series counts exactly the items inside the window.
C13_OnlyInsideWindow ==
    Aggregated =>
        SumSeq(weekly.issuesPerWeek) =
            Cardinality({ i \in DOMAIN issues : InWindow(issues[i]) })

Weekday(day) == (day + 4) % 7

\* the Monday on or before a day: the one Monday among the day and the six before it
MondayOf(day) == CHOOSE d \in (day - 6)..day : Weekday(d) = 1

CompletedOn(i) == DayOf(issues[i].resolved[1])

\* C14: an item's week-start is the Monday of its week: a Sunday rolls back
\* 6 days, any other weekday rolls back (weekday index - 1) days, and every
\* participating item, a Sunday's included, is counted in the sample whose
\* week-start is that Monday.
C14_WeekStartsOnMonday ==
    Aggregated =>
        \A i \in Participants :
            /\ DayOf(getWeekStart(issues[i].resolved[1])) = MondayOf(CompletedOn(i))
            /\ CompletedOn(i) - MondayOf(CompletedOn(i)) =
                   (IF Weekday(CompletedOn(i)) = 0 THEN 6 ELSE Weekday(CompletedOn(i)) - 1)
            /\ \E w \in DOMAIN weekly.weeklyData :
                  /\ weekly.weeklyData[w].weekStart = CivilFromDays(MondayOf(CompletedOn(i)))
                  /\ weekly.weeklyData[w].issuesCompleted =
                         Cardinality({ j \in Participants :
                                          MondayOf(CompletedOn(j)) = MondayOf(CompletedOn(i)) })

\* C14 witness: a Sunday's item and a Wednesday's item of the same week share
\* the sample of the Monday six days before the Sunday
C14_SundayJoinsItsWeek ==
    /\ Aggregated
    /\ \E i, j \in Participants :
          /\ Weekday(CompletedOn(i)) = 0
          /\ Weekday(CompletedOn(j)) = 3
          /\ CompletedOn(i) - CompletedOn(j) = 4
          /\ \E w \in DOMAIN weekly.weeklyData :
                /\ weekly.weeklyData[w].weekStart = CivilFromDays(CompletedOn(i) - 6)
                /\ weekly.weeklyData[w].issuesCompleted = 2

(***************************************************************************)
(* Properties of the analyzer.                                             *)
(***************************************************************************)
Analyzed == tier = "analyzer" /\ estimationAccuracy # Null

\* Done, a positive declared size, both timestamps, completed inside the window
Qualifying ==
    { i \in DOMAIN issues :
         /\ InWindow(issues[i])
         /\ issues[i].storyPoints > 0
         /\ issues[i].created # Absent }

CycleOf(i) == issues[i].resolved[1] - issues[i].created[1]

Proportional ==
    \A i, j \in Qualifying :
        CycleOf(i) * issues[j].storyPoints = CycleOf(j) * issues[i].storyPoints

\* C16: for every dataset of at least three qualifying items whose cycle time
\* is exactly proportional to declared size, the bias classification is
\* well_calibrated with bias score 100.
C16_ProportionalIsCalibrated ==
    (Analyzed /\ Cardinality(Qualifying) >= 3 /\ Proportional) =>
        /\ estimationAccuracy.estimationBias.type = "well_calibrated"
        /\ estimationAccuracy.estimationBias.scoreIs = "number"
        /\ estimationAccuracy.estimationBias.score = 100

(***************************************************************************)
(* Properties of the scorer.                                               *)
(***************************************************************************)
Scored == tier = "scorer" /\ confidence # Null

\* the sum of the two sub-scores; the combined score is half of it
SubScoreSum == confidence.velocityStability.score + confidence.estimationConfidence.score

\* the average of the two sub-scores rounded to the nearest integer, halves up
RoundedAverage == (SubScoreSum + 1) \div 2

\* C17: the overall confidence computeConfidence returns is the rounded
\* average of the two sub-scores clamped to [20, 95], an integer in 20..95
\* for every input, and every combined score carried in the assessment
\* respects the same bounds.
C17_CombinedScoresBounded ==
    Scored =>
        /\ confidence.confidence \in 20..95
        /\ confidence.confidence =
               (IF RoundedAverage < 20 THEN 20
                ELSE IF RoundedAverage > 95 THEN 95 ELSE RoundedAverage)
        /\ confidence.recommendation.confidenceScore \in 20..95

\* C18: the combined score is the average of the two sub-scores, and the
\* recommended percentile is P50 exactly when it is at least 80, P80 when it
\* is at least 60 and below 80, P95 when it is at least 40 and below 60,
\* CUSTOM when it is below 40.
C18_PercentileByCombinedScore ==
    Scored =>
        /\ confidence.recommendation.breakdown.velocityStabilityScore
               = confidence.velocityStability.score
        /\ confidence.recommendation.breakdown.estimationAccuracyScore
               = confidence.estimationConfidence.score
        /\ confidence.recommendation.percentile = "P50" <=> SubScoreSum >= 2 * 80
        /\ confidence.recommendation.percentile = "P80" <=>
               (SubScoreSum >= 2 * 60 /\ SubScoreSum < 2 * 80)
        /\ confidence.recommendation.percentile = "P95" <=>
               (SubScoreSum >= 2 * 40 /\ SubScoreSum < 2 * 60)
        /\ confidence.recommendation.percentile = "CUSTOM" <=> SubScoreSum < 2 * 40

\* C18 witness: sub-scores 95 and 65 average to exactly 80 and P50 is named
C18_ExactlyEighty ==
    /\ Scored
    /\ confidence.velocityStability.score = 95
    /\ confidence.estimationConfidence.score = 65
    /\ confidence.recommendation.percentile = "P50"

\* the series given to computeConfidence has fewer than 3 samples or is missing
FewWeeks == weekly = Absent \/ Len(weekly[1]) < 3

\* C19: with fewer than 3 weekly samples, an empty or a missing series
\* included, the velocity stability sub-score is 0 with level
\* insufficient_data, and it is returned as part of a normal assessment,
\* never raised as an error.
C19_FewWeeksScoreZero ==
    Scored =>
        /\ FewWeeks =>
              /\ confidence.velocityStability.score = 0
              /\ confidence.velocityStability.level = "insufficient_data"
        /\ ~FewWeeks =>
              /\ confidence.velocityStability.score \in 20..95
              /\ confidence.velocityStability.level # "insufficient_data"
        /\ DOMAIN confidence =
               {"velocityStability", "estimationConfidence", "recommendation", "confidence"}
        /\ confidence.recommendation.percentile \in {"P50", "P80", "P95", "CUSTOM"}

\* C19 witness: a series of two weeks scored 0, the assessment complete
C19_TwoWeeksScored ==
    /\ Scored
    /\ weekly # Absent
    /\ Len(weekly[1]) = 2
    /\ confidence.velocityStability.score = 0
    /\ confidence.velocityStability.level = "insufficient_data"
    /\ confidence.confidence \in 20..95

(***************************************************************************)
(* Properties of the requests at the boundary.                             *)
(***************************************************************************)
\* the request of call c asks for a negative workload or for no samples
InvalidRequest(c) ==
    \/ /\ calls[c].kind = "baseline"
       /\ \/ calls[c].payload.remaining.total_points < 0
          \/ calls[c].payload.remaining.issue_count < 0
    \/ /\ calls[c].kind = "simulation"
       /\ \/ calls[c].payload.remainingWork < 0
          \/ calls[c].payload.samples <= 0

\* C20: a forecast request with a negative remaining workload or a
\* non-positive sample count is rejected with an InvalidInput failure before
\* any trial runs; it is never clamped to a valid value or answered with a
\* forecast.
C20_InvalidRequestRejected ==
    tier = "boundary" =>
        \A c \in CallIds :
            InvalidRequest(c) =>
                /\ ~calls[c].response.success
                /\ calls[c].trials = 0

(***************************************************************************)
(* Properties of the bias classification.                                  *)
(***************************************************************************)
\* a profile with at least two size groups, so that a linearity exists
Compared ==
    /\ Analyzed
    /\ ~estimationAccuracy.insufficient
    /\ Len(estimationAccuracy.byPointValue) >= 2

\* the average linearity over adjacent size pairs of the reported groups
Linearity == AvgLinearity(estimationAccuracy.byPointValue)

\* the linearity is the fraction a / b
LinearityIs(a, b) ==
    Linearity.is = "number" /\ Linearity.den > 0 /\ b * Linearity.num = a * Linearity.den

\* C23: detectEstimationBias classifies the average linearity L over adjacent
\* size pairs as severe_overestimation for L < 0.5, moderate_overestimation
\* for 0.5 <= L < 0.8, well_calibrated for 0.8 <= L <= 1.2,
\* moderate_underestimation for 1.2 < L <= 1.5 and severe_underestimation for
\* L > 1.5, the boundary values 0.5, 0.8, 1.2 and 1.5 included, and reports
\* score = round(L * 100).
C23_BiasBands ==
    (Compared /\ Linearity.is = "number" /\ Linearity.den > 0) =>
        LET n == Linearity.num
            d == Linearity.den
            bias == estimationAccuracy.estimationBias
        IN  /\ 2 * n < d => bias.type = "severe_overestimation"
            /\ (2 * n >= d /\ 5 * n < 4 * d) => bias.type = "moderate_overestimation"
            /\ (5 * n >= 4 * d /\ 5 * n <= 6 * d) => bias.type = "well_calibrated"
            /\ (5 * n > 6 * d /\ 2 * n <= 3 * d) => bias.type = "moderate_underestimation"
            /\ 2 * n > 3 * d => bias.type = "severe_underestimation"
            /\ bias.scoreIs = "number"
            /\ bias.score = (200 * n + d) \div (2 * d)

\* C23 witness: a linearity of exactly 1.5 is classified as moderate
\* under-estimation with score 150
C23_ExactlyOneAndAHalf ==
    /\ Compared
    /\ LinearityIs(3, 2)
    /\ estimationAccuracy.estimationBias.type = "moderate_underestimation"
    /\ estimationAccuracy.estimationBias.score = 150

(***************************************************************************)
(* Properties of the confidence computed from an analyzer's profile.       *)
(***************************************************************************)
\* the handler has computed a full profile and its confidence
Profiled ==
    /\ tier = "profiler"
    /\ confidence # Null
    /\ ~estimationAccuracy.insufficient

\* the size groups the analyzer flags as high-variability
FlaggedGroups ==
    { g \in DOMAIN estimationAccuracy.byPointValue :
         /\ estimationAccuracy.byPointValue[g].variability > 50
         /\ estimationAccuracy.byPointValue[g].count >= 3 }

BiasRecommendations ==
    { i \in DOMAIN estimationAccuracy.recommendations :
         estimationAccuracy.recommendations[i].type \in {"underestimation", "overestimation"} }

\* the band value of the reported calibration level
BandValue ==
    CASE confidence.estimationConfidence.level = "well_calibrated" -> 90
      [] confidence.estimationConfidence.level = "acceptable" -> 75
      [] confidence.estimationConfidence.level = "needs_adjustment" -> 55
      [] OTHER -> 35

AfterVariabilityPenalty ==
    IF Cardinality(FlaggedGroups) > 2
    THEN (IF BandValue - 20 > 20 THEN BandValue - 20 ELSE 20)
    ELSE BandValue

\* C24: for a profile produced by the analyzer, the estimation confidence
\* sub-score is the band value reduced by 20 (not below 20) when more than 2
\* size groups are flagged high-variability, and then reduced by 25 (not
\* below 30) when more than 1 bias-type recommendation exists.
C24_PenaltiesOnFlaggedGroups ==
    Profiled =>
        confidence.estimationConfidence.score =
            IF Cardinality(BiasRecommendations) > 1
            THEN (IF AfterVariabilityPenalty - 25 > 30 THEN AfterVariabilityPenalty - 25 ELSE 30)
            ELSE AfterVariabilityPenalty

(***************************************************************************)
(* Properties of the velocity sub-score.                                   *)
(***************************************************************************)
\* the weekly values the scorer was given
Series == [i \in DOMAIN weekly[1] |-> weekly[1][i].pointsCompleted]

SeriesSum(from, to) ==
    LET S[i \in (from - 1)..to] == IF i < from THEN 0 ELSE S[i - 1] + Series[i]
    IN  S[to]

SeriesSquares ==
    LET S[i \in 0..Len(Series)] == IF i = 0 THEN 0 ELSE S[i - 1] + Series[i] * Series[i]
    IN  S[Len(Series)]

\* population standard deviation / mean * 100 < limit, for a positive mean
CvUnder(limit) ==
    LET n == Len(Series)
        total == SeriesSum(1, n)
    IN  10000 * (n * SeriesSquares - total * total) < limit * limit * total * total

VelocityBand ==
    IF CvUnder(15) THEN 95
    ELSE IF CvUnder(25) THEN 80
    ELSE IF CvUnder(40) THEN 60
    ELSE IF CvUnder(60) THEN 40
    ELSE 20

\* the mean of the second half is lower than the mean of the first half
SecondHalfLower ==
    LET n == Len(Series)
        half == n \div 2
    IN  SeriesSum(half + 1, n) * half < SeriesSum(1, half) * (n - half)

\* C25: for 3 or more weekly samples the velocity score is the band value of
\* the coefficient of variation (below 15: 95, below 25: 80, below 40: 60,
\* below 60: 40, otherwise 20), reduced by 15 but not below 20 exactly when
\* the second-half mean is lower than the first-half mean; an improving or
\* stable trend leaves the band value unchanged.
C25_VelocityBandAndTrend ==
    (Scored /\ weekly # Absent /\ Len(weekly[1]) >= 3 /\ SeriesSum(1, Len(Series)) > 0) =>
        /\ SecondHalfLower =>
              /\ confidence.velocityStability.details.trend = "declining"
              /\ confidence.velocityStability.score =
                    (IF VelocityBand - 15 > 20 THEN VelocityBand - 15 ELSE 20)
        /\ ~SecondHalfLower =>
              /\ confidence.velocityStability.details.trend \in {"improving", "stable"}
              /\ confidence.velocityStability.score = VelocityBand

\* C25 witness: a series in the band below 25 whose second half is lower
\* scores 80 - 15
C25_DecliningStableSeries ==
    /\ Scored /\ weekly # Absent /\ Len(weekly[1]) >= 3
    /\ SeriesSum(1, Len(Series)) > 0
    /\ SecondHalfLower
    /\ VelocityBand = 80
    /\ confidence.velocityStability.score = 65

\* C26: whenever the bias is classified as under-estimation or
\* over-estimation (moderate or severe), the recommendation list contains a
\* calibration recommendation that carries a suggested multiplier equal to
\* the bias score divided by 100.
C26_BiasCarriesMultiplier ==
    (Analyzed /\ ~estimationAccuracy.insufficient
       /\ estimationAccuracy.estimationBias.type \in
             {"severe_underestimation", "moderate_underestimation",
              "severe_overestimation", "moderate_overestimation"}) =>
        \E i \in DOMAIN estimationAccuracy.recommendations :
            /\ estimationAccuracy.recommendations[i].type \in
                  {"underestimation", "overestimation"}
            /\ "suggestedMultiplier" \in DOMAIN estimationAccuracy.recommendations[i]
            /\ estimationAccuracy.recommendations[i].suggestedMultiplier
                  = [is         |-> estimationAccuracy.estimationBias.scoreIs,
                     hundredths |-> estimationAccuracy.estimationBias.score]

(***************************************************************************)
(* Properties of the penalty steps of analyzeEstimationConfidence.         *)
(***************************************************************************)
\* the scorer was given a full profile
FullProfile ==
    /\ Scored
    /\ estimationAccuracy # Absent
    /\ ~estimationAccuracy[1].insufficient

RecordsOfType(types) ==
    IF "recommendations" \in DOMAIN estimationAccuracy[1]
    THEN { i \in DOMAIN estimationAccuracy[1].recommendations :
              estimationAccuracy[1].recommendations[i].type \in types }
    ELSE {}

\* the score between the two penalty steps
ScoreAfterFirstPenalty ==
    IF Cardinality(RecordsOfType({"high_variability"})) > 2
    THEN (IF BandValue - 20 > 20 THEN BandValue - 20 ELSE 20)
    ELSE BandValue

\* C28: in analyzeEstimationConfidence each penalty step only lowers or keeps
\* the score: for every band value and every combination of the
\* high-variability and bias penalties, the score after a penalty is never
\* higher than the score before it.
C28_PenaltiesNeverRaise ==
    FullProfile =>
        /\ ScoreAfterFirstPenalty <= BandValue
        /\ confidence.estimationConfidence.score <= ScoreAfterFirstPenalty

(***************************************************************************)
(* Properties of fetchAllIssues.                                           *)
(***************************************************************************)
\* C30: fetchAllIssues terminates for every sequence of successful page
\* responses: it requests the next page only while the last response carried
\* a nextPageToken and fewer than 5000 issues have been collected, and it
\* stops with an error on the first non-ok response without retrying.
C30_FetchTerminates ==
    <>(tier = "fetcher" /\ fetch.status \in {"returned", "thrown"})

(***************************************************************************)
(* Properties of the progress reports of one runSimulation call.           *)
(***************************************************************************)
\* the call is made on a throughput with a positive value
Reporting == tier = "reporter" /\ Len(SimValues(throughput, FALSE)) > 0

\* C27: during a runSimulation call with non-empty throughput, successive
\* onProgress reports have strictly increasing current values that never
\* exceed total, and the promise eventually resolves, after a final report
\* with current = total, for every sample count and batch size accepted by
\* the function.
C27_ProgressIncreasesToTotal ==
    /\ [](Reporting =>
            /\ \A i \in DOMAIN reports : reports[i].current <= reports[i].total
            /\ Len(reports) = 2 => reports[1].current < reports[2].current
            /\ runs[1].status = "resolved" =>
                  reports[Len(reports)].current = reports[Len(reports)].total)
    /\ (Reporting => <>(runs[1].status = "resolved"))

(***************************************************************************)
(* Properties of the steps of App.                                         *)
(***************************************************************************)
\* the running call of handleFetchBaseline ends in this step
Leaves == app.at # "idle" /\ app'.at = "idle"

\* C29: every handleFetchBaseline call whose backend invocations settle
\* leaves the 'loading' step: it ends in step 'baseline' with loading false
\* and a non-null baselineResult on success, or in step 'scope-picker' with
\* loading false and error set on any failure; step 'baseline' is never
\* shown with a null baselineResult.
C29_FetchBaselineLeavesLoading ==
    /\ [](tier = "flow" /\ app.step = "baseline" => app.baselineResult # Null)
    /\ [][tier = "flow" /\ Leaves =>
             /\ ~app'.loading
             /\ \/ app'.step = "baseline" /\ app'.baselineResult # Null /\ app'.error = <<>>
                \/ app'.step = "scope-picker" /\ app'.error # <<>>]_vars
    /\ ((tier = "flow" /\ app.step = "loading") ~> (app.step # "loading"))

\* a call has ended in success and the baseline view is shown
C29_BaselineShown ==
    /\ tier = "flow"
    /\ app.step = "baseline"
    /\ ~app.loading
    /\ app.baselineResult # Null
    /\ app.baselineResult.fetchData.snapshotId = 2

(***************************************************************************)
(* Properties of the scenario forecast.                                    *)
(***************************************************************************)
\* the points an item counts for after the deltas: those of the last
\* estimate_override that names it, else its own
PointsAfter(key, own, deltas) ==
    LET named == SelectSeq(deltas, LAMBDA d : d.delta_type = "estimate_override"
                                              /\ d.entity_key = key)
    IN  IF named = <<>> THEN own ELSE named[Len(named)].points

RECURSIVE Total(_, _)
Total(f, S) == IF S = {} THEN 0 ELSE LET x == CHOOSE x \in S : TRUE IN f[x] + Total(f, S \ {x})

\* the total story points of the fetched items that are To Do or In
\* Progress and not removed, and of the items added
AdjustedWork(fetched, deltas) ==
    LET kept  == { i \in DOMAIN fetched :
                      /\ fetched[i].statusCategory \in {"To Do", "In Progress"}
                      /\ \A d \in DOMAIN deltas :
                            ~(deltas[d].delta_type = "scope_remove"
                              /\ deltas[d].entity_key = fetched[i].key) }
        added == { d \in DOMAIN deltas : deltas[d].delta_type = "scope_add" }
    IN  Total([i \in kept |-> PointsAfter(fetched[i].key, fetched[i].storyPoints, deltas)], kept)
        + Total([d \in added |-> PointsAfter(deltas[d].entity_key, deltas[d].points, deltas)],
                added)

\* the resolver's answer to a call with the fetched issues
ResolverAdjusts ==
    tier = "scenario" /\ calls[1] # NoCall /\ Len(throughput) > 0 =>
        /\ calls[1].response.success
        /\ calls[1].response.adjustedRemaining = AdjustedWork(issues, calls[1].payload.deltas)

C21_StructuredOutcome ==
    tier = "resolver" /\ calls[1] # NoCall =>
        /\ ~calls[1].outcome.thrown
        /\ "success" \in DOMAIN calls[1].outcome.value
        /\ calls[1].outcome.value.success \in BOOLEAN
        /\ ~calls[1].outcome.value.success => "error" \in DOMAIN calls[1].outcome.value

\* a request without a payload has been answered with a tagged failure
C21_MissingPayloadAnswered ==
    /\ tier = "resolver"
    /\ calls[1] # NoCall
    /\ calls[1].kind = "computeScenario"
    /\ calls[1].payload = <<>>
    /\ ~calls[1].outcome.thrown
    /\ ~calls[1].outcome.value.success

====
